---------------------------- MODULE Spec2Model ----------------------------
(***************************************************************************)
(* A model of argparseware: the middleware pipeline of ArgumentParser      *)
(* (core.py), the command tree of CommandsMiddleware (commands/__init__.py)*)
(* and the merge engine merge_dicts (utils.py).                            *)
(*                                                                         *)
(* Strings are modelled as sequences of symbols, so that joining and       *)
(* prefix tests are computed and not assumed: a command "db migrate" is    *)
(* <<"db", "migrate">>, the namespace key "__cmd_db" is                    *)
(* <<"__cmd_", "db">>.  A Python dict is a set of [k, v] entries with      *)
(* pairwise distinct keys.                                                 *)
(***************************************************************************)
EXTENDS Integers, Sequences, FiniteSets, TLC

VARIABLES
    middlewares,   \* ArgumentParser.middlewares: the list of middleware objects
    parser,        \* the argparse state of the parser: flags and sub-parsers
    sysargv,       \* sys.argv[1:] of the process
    stack,         \* the active parse_args/run calls, innermost last
    outcome,       \* what the process is doing: idle, running, exited, raised
    log,           \* the middleware and parse events of the current outermost call
    invoked,       \* the handler invocations of the current outermost call
    returned,      \* the namespace the current call returned to the program, if any
    ncalls,        \* the number of calls of parse_args/run the program has made
    configured,    \* the middleware whose configure has returned on this parser
    mheap,         \* the dict objects of the merge engine's caller, by address
    mheap0,        \* the dict objects as they were before the call of merge_dicts
    margs,         \* the arguments of the call: base and layers, as addresses
    mres,          \* the call's flags and result, once it has returned
    cin,           \* a middleware object, the namespace and the environment its run is given
    cout,          \* the namespace its run leaves, or the exception, once it has returned
    installed,     \* the console-script entry points of the package, as installed now
    cachefile,     \* the pickle file of ConsoleScriptsMiddleware in the temporary directory
    lastmap,       \* the last commands_map obtained: by which instance, from which entry points
    nchanges,      \* the number of changes made to the entry points and the cache file
    proc           \* the parent process in ConsoleScriptsMiddleware.run and its child

pvars == <<middlewares, parser, sysargv, stack, outcome, log, invoked, returned, ncalls,
          configured>>
mvars == <<mheap, mheap0, margs, mres>>
cvars == <<cin, cout>>
svars == <<installed, cachefile, lastmap, nchanges, proc>>
vars == <<pvars, mvars, cvars, svars>>

----------------------------------------------------------------------------
(* Bounds of the model. *)

\* the middleware on one parser, those the program of the pipeline
\* specification registers itself, and the calls of parse_args/run it makes
MaxMiddlewares == 3
MaxPipeline == 2
MaxCalls == 2

\* the path segments commands are built from, the registered paths, and the
\* command lines given to the parser
Segs == {"db", "migrate", "run"}
CommandPaths == {<<"db">>, <<"db", "migrate">>, <<"run">>}
ArgvChoices == {<<>>, <<"db">>, <<"db", "migrate">>, <<"run">>}

\* the layers of one call of merge_dicts
MaxLayers == 2

----------------------------------------------------------------------------
(* Values, keys and dicts. *)

None == [t |-> "None", v |-> <<>>]
Str(s) == [t |-> "str", v |-> s]
False == [t |-> "bool", v |-> <<"False">>]
EmptyList == [t |-> "list", v |-> <<>>]

HasKey(d, k) == \E e \in d : e.k = k
Get(d, k) == (CHOOSE e \in d : e.k = k).v
Del(d, k) == {e \in d : e.k # k}
Put(d, k, v) == Del(d, k) \cup {[k |-> k, v |-> v]}
Keys(d) == {e.k : e \in d}

\* Command.TEMP_PREFIX
TEMP_PREFIX == <<"__cmd_">>

RECURSIVE Join(_, _)
\* sep.join(parts), for parts a sequence of one-symbol strings
Join(parts, sep) ==
    IF Len(parts) = 0 THEN <<>>
    ELSE IF Len(parts) = 1 THEN <<parts[1]>>
    ELSE <<parts[1], sep>> \o Join(Tail(parts), sep)

\* '{}{}'.format(TEMP_PREFIX, '_'.join(parts))
TempKey(parts) == TEMP_PREFIX \o Join(parts, "_")

\* key.startswith(prefix)
StartsWith(key, prefix) ==
    /\ Len(key) >= Len(prefix)
    /\ SubSeq(key, 1, Len(prefix)) = prefix

IsSynthetic(key) == StartsWith(key, TEMP_PREFIX)

----------------------------------------------------------------------------
(* Middleware objects. *)

Kinds == {"commands", "config", "configlist", "inlineoption", "inlineconfig",
          "logging", "gunicorn", "wrapper"}

\* a middleware object as its constructor leaves it; `chain` is the number of
\* further middleware a wrapper's conf callback registers, one per configure
NewMiddleware(kind, chain, id) ==
    [id |-> id, kind |-> kind, commands |-> {}, argparser |-> "None", chain |-> chain]

Flag(strings, dest, default) == [strings |-> strings, dest |-> dest, default |-> default]

\* the add_argument calls of each middleware's configure, in order
ServerFlags == <<Flag({"-L", "--listen-addr"}, <<"listen_addr">>, Str(<<"8080">>))>>

ConfigureFlags(kind) ==
    CASE kind = "config" ->
            <<Flag({"-c", "--config"}, <<"config_file">>, None)>>
      [] kind = "configlist" ->
            <<Flag({"-c", "--config"}, <<"config_files">>, None)>>
      [] kind = "inlineoption" ->
            <<Flag({"-o", "--option"}, <<"option">>, None)>>
      [] kind = "inlineconfig" ->
            <<Flag({"-e", "--env"}, <<"config_env">>, None)>>
      [] kind = "logging" ->
            <<Flag({"--log-std"}, <<"log_std">>, False),
              Flag({"--log-file"}, <<"log_file">>, None),
              Flag({"--log-level"}, <<"log_level">>, None),
              Flag({"-q", "--quiet"}, <<"quiet">>, False),
              Flag({"-v", "--verbose"}, <<"verbose">>, False)>>
      [] kind = "gunicorn" ->
            ServerFlags \o
            <<Flag({"-j", "--prefork-count"}, <<"prefork_count">>, Str(<<"1">>)),
              Flag({"-T", "--request-timeout"}, <<"request_timeout">>, Str(<<"120">>)),
              Flag({"-l", "--prefork-preload"}, <<"prefork_preload">>, False)>>
      [] OTHER -> <<>>

----------------------------------------------------------------------------
(* The argparse state of the parser. *)

\* a parser as argparse.ArgumentParser.__init__ leaves it: no flag but -h,
\* no sub-parser; `subs` holds one [node, dest] per sub-parsers action
NewParser == [actions |-> {}, nodes |-> {}, subs |-> {}]

OptionStrings(p) == UNION {a.strings : a \in p.actions}

Conflicts(p, flag) == flag.strings \cap OptionStrings(p) # {}

RECURSIVE AddArguments(_, _)
\* parser.add_argument for each flag in turn; argparse raises ArgumentError
\* at the first flag one of whose option strings is already registered
AddArguments(p, flags) ==
    IF Len(flags) = 0 THEN [parser |-> p, raised |-> FALSE]
    ELSE IF Conflicts(p, Head(flags)) THEN [parser |-> p, raised |-> TRUE]
    ELSE AddArguments([p EXCEPT !.actions = @ \cup {Head(flags)}], Tail(flags))

HasSubAction(p, node) == \E s \in p.subs : s.node = node
SubDest(p, node) == (CHOOSE s \in p.subs : s.node = node).dest

\* Command.get_subparser_action(parser, dest, add=True): the sub-parsers
\* action of `node`, created when missing, its dest set to `dest`
GetSubparserAction(p, node, dest) ==
    [p EXCEPT !.subs = {s \in @ : s.node # node} \cup {[node |-> node, dest |-> dest]}]

\* action.add_parser(command): a new parser object under the name; the
\* choices entry of the name now refers to it, so what hung under a parser
\* of that name before is no longer part of the tree
AddParser(p, node) ==
    [p EXCEPT !.nodes = {n \in @ : ~StartsWith(n, node)} \cup {node},
              !.subs = {s \in @ : ~StartsWith(s.node, node)}]

RECURSIVE ApplyPartsNoReuse(_, _, _)
\* the loop without the lookup in action.choices: add_parser for every part
ApplyPartsNoReuse(p, parts, index) ==
    IF index >= Len(parts) THEN p
    ELSE LET node == SubSeq(parts, 1, index + 1)
             p1 == AddParser(p, node)
             p2 == IF index < Len(parts) - 1
                   THEN [p1 EXCEPT !.subs = {s \in @ : s.node # node}
                                           \cup {[node |-> node, dest |-> TEMP_PREFIX \o Join(node, "_")]}]
                   ELSE p1
         IN ApplyPartsNoReuse(p2, parts, index + 1)

RECURSIVE ApplyParts(_, _, _)
\* the loop of Command.apply over the parts of the command, from part `index`
\* (0-based as in the code): action.choices[command], and add_parser on
\* KeyError
ApplyParts(p, parts, index) ==
    IF index >= Len(parts) THEN p
    ELSE LET node == SubSeq(parts, 1, index + 1)
             p1 == IF node \in p.nodes THEN p ELSE AddParser(p, node)
             p2 == IF index < Len(parts) - 1
                   THEN GetSubparserAction(p1, node, TempKey(node))
                   ELSE p1
         IN ApplyParts(p2, parts, index + 1)

\* Command.apply(parser)
Apply(p, command) ==
    ApplyParts(GetSubparserAction(p, <<>>, TempKey(<<>>)), command.command, 0)

SegRank(s) == CASE s = "db" -> 1 [] s = "migrate" -> 2 [] s = "run" -> 3 [] OTHER -> 4

RECURSIVE PathLess(_, _)
\* x.command < y.command for the space-joined strings
PathLess(x, y) ==
    IF Len(x) = 0 THEN Len(y) > 0
    ELSE IF Len(y) = 0 THEN FALSE
    ELSE IF x[1] # y[1] THEN SegRank(x[1]) < SegRank(y[1])
    ELSE PathLess(Tail(x), Tail(y))

\* the first of a set of commands in the order of their paths
FirstCommand(commands) ==
    CHOOSE c \in commands : \A d \in commands : d = c \/ ~PathLess(d.command, c.command)

RECURSIVE ApplyAll(_, _)
\* for command in sorted(self.commands, key=lambda x: x.command): command.apply(parser)
ApplyAll(p, commands) ==
    IF commands = {} THEN p
    ELSE LET c == FirstCommand(commands)
         IN ApplyAll(Apply(p, c), commands \ {c})

\* the defaults argparse sets on the namespace for the parser at `node`:
\* every flag of the top-level parser, and the dest of the node's sub-parsers
\* action
FlagDefaults(p, node) ==
    IF node = <<>> THEN {[k |-> a.dest, v |-> a.default] : a \in p.actions} ELSE {}

DefaultsOf(p, node) ==
    FlagDefaults(p, node) \cup
    (IF HasSubAction(p, node) THEN {[k |-> SubDest(p, node), v |-> None]} ELSE {})

RECURSIVE Overlay(_, _)
\* setattr(namespace, key, value) for every entry of `entries`
Overlay(ns, entries) ==
    IF entries = {} THEN ns
    ELSE LET e == CHOOSE e \in entries : TRUE
         IN Overlay(Put(ns, e.k, e.v), entries \ {e})

RECURSIVE ParseFrom(_, _, _, _, _)
\* argparse on the parser at `node` with the tokens left: a "--help" prints
\* the node's help and exits 0, a word is the sub-command of a node that has
\* sub-parsers (an unknown one is a usage error, exit 2) and an unrecognized
\* argument elsewhere (a usage error once the tokens are consumed)
ParseFrom(p, node, toks, ns, extras) ==
    IF Len(toks) = 0
    THEN IF extras THEN [kind |-> "exit", code |-> 2, help |-> <<"error">>, ns |-> {}]
         ELSE [kind |-> "ok", code |-> 0, help |-> <<"none">>, ns |-> ns]
    ELSE IF Head(toks) = "--help"
    THEN [kind |-> "exit", code |-> 0, help |-> <<"help">> \o node, ns |-> {}]
    ELSE IF HasSubAction(p, node)
    THEN LET child == Append(node, Head(toks))
         IN IF child \in p.nodes
            THEN ParseFrom(p, child, Tail(toks),
                           Overlay(Put(ns, SubDest(p, node), Str(<<Head(toks)>>)),
                                   DefaultsOf(p, child)),
                           extras)
            ELSE [kind |-> "exit", code |-> 2, help |-> <<"error">>, ns |-> {}]
    ELSE ParseFrom(p, node, Tail(toks), ns, TRUE)

\* argparse.ArgumentParser.parse_args(argv) of the top-level parser
BaseParseArgs(p, toks) == ParseFrom(p, <<>>, toks, DefaultsOf(p, <<>>), FALSE)


----------------------------------------------------------------------------
(* The merge engine: merge_dicts on a heap of dict objects.  A value is an  *)
(* int, None, or the address of a dict object, so that a write to an        *)
(* object is seen through every reference to it.                            *)

IntV(n) == [t |-> "int", v |-> n]
Ref(addr) == [t |-> "dict", v |-> addr]
MNone == [t |-> "None", v |-> 0]
Lit(entries) == [t |-> "dict", v |-> entries]
E(k, v) == [k |-> k, v |-> v]

\* the dicts the caller passes, as literals
InputDicts ==
    { {},
      {E("a", IntV(1))},
      {E("a", IntV(2))},
      {E("b", IntV(1))},
      {E("a", IntV(1)), E("b", IntV(2))},
      {E("a", Lit({}))},
      {E("a", Lit({E("x", IntV(1))}))},
      {E("a", Lit({E("x", IntV(2))}))},
      {E("a", Lit({E("y", IntV(1))}))},
      {E("a", Lit({E("x", IntV(1)), E("y", IntV(2))}))},
      {E("a", Lit({E("x", Lit({E("x", IntV(1))}))}))},
      {E("a", Lit({E("x", Lit({E("x", IntV(2))}))}))},
      {E("a", Lit({E("x", Lit({E("y", IntV(2))}))}))} }

KeyRank(k) == CASE k = "a" -> 1 [] k = "b" -> 2 [] k = "x" -> 3 [] k = "y" -> 4 [] OTHER -> 5
FirstKey(keys) == CHOOSE k \in keys : \A j \in keys : KeyRank(k) <= KeyRank(j)

RECURSIVE AllocEntries(_, _, _)
\* the evaluation of a dict literal: nested literals first, then the dict
AllocEntries(h, entries, acc) ==
    IF entries = {} THEN [heap |-> Append(h, acc), addr |-> Len(h) + 1]
    ELSE LET k == FirstKey(Keys(entries))
             v == Get(entries, k)
             rest == Del(entries, k)
         IN IF v.t = "dict"
            THEN LET sub == AllocEntries(h, v.v, {})
                 IN AllocEntries(sub.heap, rest, acc \cup {E(k, Ref(sub.addr))})
            ELSE AllocEntries(h, rest, acc \cup {E(k, v)})

Alloc(h, lit) == AllocEntries(h, lit, {})

RECURSIVE AllocAll(_, _, _)
AllocAll(h, lits, addrs) ==
    IF Len(lits) = 0 THEN [heap |-> h, addrs |-> addrs]
    ELSE LET r == Alloc(h, Head(lits))
         IN AllocAll(r.heap, Tail(lits), Append(addrs, r.addr))

RECURSIVE Deref(_, _)
\* the value of the dict at `addr`, with every reference followed
Deref(h, addr) ==
    {E(e.k, IF e.v.t = "dict" THEN Lit(Deref(h, e.v.v)) ELSE e.v) : e \in h[addr]}

\* result[key] = value
SetItem(h, addr, key, value) == [h EXCEPT ![addr] = Put(@, key, value)]

\* result = data: the same dict object under a second name
CopyDictAlias(h, data) == [heap |-> h, addr |-> data]

\* result = dict(data): a new dict object with the entries of data
CopyDict(h, data) == [heap |-> Append(h, h[data]), addr |-> Len(h) + 1]

\* data.get(key)
DictGet(h, data, key) == IF HasKey(h[data], key) THEN Get(h[data], key) ELSE MNone

RECURSIVE MergeDicts(_, _, _, _, _)
RECURSIVE MergeArgs(_, _, _, _, _, _)
RECURSIVE MergeItem(_, _, _, _, _, _, _)

\* the loop body with a nested merge that falls back to the default
\* overwrite=True
MergeItemResetOverwrite(h, data, result, item, keys, overwrite, recurse) ==
    IF keys = {} THEN h
    ELSE LET key == FirstKey(keys)
             value == Get(h[item], key)
             data_value == DictGet(h, data, key)
             h1 == IF value.t = "dict" /\ data_value.t = "dict" /\ recurse
                   THEN LET sub == MergeDicts(h, data_value.v, <<value.v>>, TRUE, TRUE)
                        IN SetItem(sub.heap, result, key, Ref(sub.addr))
                   ELSE IF HasKey(h[data], key)
                   THEN IF overwrite
                        THEN SetItem(h, result, key, value)
                        ELSE SetItem(h, result, key, data_value)
                   ELSE SetItem(h, result, key, value)
         IN MergeItem(h1, data, result, item, keys \ {key}, overwrite, recurse)

\* the body of `for key, value in item.items()` for the keys left of one item
MergeItem(h, data, result, item, keys, overwrite, recurse) ==
    IF keys = {} THEN h
    ELSE LET key == FirstKey(keys)
             value == Get(h[item], key)
             data_value == DictGet(h, data, key)
             h1 == IF value.t = "dict" /\ data_value.t = "dict" /\ recurse
                   THEN LET sub == MergeDicts(h, data_value.v, <<value.v>>, overwrite, TRUE)
                        IN SetItem(sub.heap, result, key, Ref(sub.addr))
                   ELSE IF HasKey(h[data], key)
                   THEN IF overwrite
                        THEN SetItem(h, result, key, value)
                        ELSE SetItem(h, result, key, data_value)
                   ELSE SetItem(h, result, key, value)
         IN MergeItem(h1, data, result, item, keys \ {key}, overwrite, recurse)

\* `for item in args`
MergeArgs(h, data, result, args, overwrite, recurse) ==
    IF Len(args) = 0 THEN [heap |-> h, addr |-> result]
    ELSE MergeArgs(MergeItem(h, data, result, Head(args), Keys(h[Head(args)]),
                             overwrite, recurse),
                   data, result, Tail(args), overwrite, recurse)

\* merge_dicts(data, *args, overwrite=overwrite, recurse=recurse)
MergeDicts(h, data, args, overwrite, recurse) ==
    LET c == CopyDict(h, data)
    IN MergeArgs(c.heap, data, c.addr, args, overwrite, recurse)

NotCalled == [done |-> FALSE, addr |-> 0, overwrite |-> FALSE, recurse |-> FALSE]

\* the caller has built a base dict and up to MaxLayers layers
InitMerge ==
    /\ \E n \in 0..MaxLayers :
         \E lits \in [1..(n + 1) -> InputDicts] :
            LET r == AllocAll(<<>>, lits, <<>>)
            IN /\ mheap = r.heap
               /\ mheap0 = r.heap
               /\ margs = [data |-> r.addrs[1], args |-> Tail(r.addrs)]
    /\ mres = NotCalled

\* the caller calls merge_dicts(data, *args, overwrite=..., recurse=...)
MergeCall(overwrite, recurse) ==
    /\ ~mres.done
    /\ Len(mheap) > 0
    /\ LET r == MergeDicts(mheap, margs.data, margs.args, overwrite, recurse)
       IN /\ mheap' = r.heap
          /\ mres' = [done |-> TRUE, addr |-> r.addr,
                      overwrite |-> overwrite, recurse |-> recurse]
    /\ UNCHANGED <<mheap0, margs>>

----------------------------------------------------------------------------
(* The configuration middleware of config.py: what one call of run does to  *)
(* the namespace.  A text is a sequence of symbols; a dict key is the       *)
(* string the text spells.                                                  *)

\* the environment variables of one process
MaxEnv == 3

\* str.lower() of one symbol
Lower(sym) ==
    CASE sym = "PFX_" -> "pfx_"
      [] sym = "FOO" -> "foo"
      [] sym = "BAR" -> "bar"
      [] sym = "OTHER" -> "other"
      [] OTHER -> sym

\* text.lower()
LowerAll(text) == [i \in DOMAIN text |-> Lower(text[i])]

\* the string a text of up to two symbols spells
Spell(text) ==
    IF Len(text) = 0 THEN ""
    ELSE IF Len(text) = 1 THEN text[1]
    ELSE CASE text = <<"PFX_", "FOO">> -> "PFX_FOO"
           [] text = <<"PFX_", "BAR">> -> "PFX_BAR"
           [] text = <<"PFX_", "foo">> -> "PFX_foo"
           [] text = <<"pfx_", "foo">> -> "pfx_foo"
           [] text = <<"pfx_", "bar">> -> "pfx_bar"
           [] OTHER -> "?"

\* json.loads(text): a number, null, a quoted string or an object; any other text raises
\* JSONDecodeError (ok = FALSE)
JsonLoads(text) ==
    IF text = <<"1">> THEN [ok |-> TRUE, value |-> IntV(1)]
    ELSE IF text = <<"3">> THEN [ok |-> TRUE, value |-> IntV(3)]
    ELSE IF text = <<"null">> THEN [ok |-> TRUE, value |-> MNone]
    ELSE IF Len(text) = 3 /\ text[1] = "\"" /\ text[3] = "\""
    THEN [ok |-> TRUE, value |-> Str(<<text[2]>>)]
    ELSE IF text = <<"{", "\"", "x", "\"", ":", "1", "}">>
    THEN [ok |-> TRUE, value |-> Lit({E("x", IntV(1))})]
    ELSE [ok |-> FALSE, value |-> MNone]

\* try: value = json.loads(value) / except JSONDecodeError: keep the text
Decode(text) == IF JsonLoads(text).ok THEN JsonLoads(text).value ELSE Str(text)

\* the key of a matching variable with the prefix kept: key.lower()
EnvKeyKeepPrefix(prefix, lower, name) == IF lower THEN LowerAll(name) ELSE name

\* the key EnvironmentConfigMiddleware.run stores a matching variable under:
\* `if self.lower: key = key[len(self.prefix):].lower()`
EnvKey(prefix, lower, name) ==
    IF lower THEN LowerAll(SubSeq(name, Len(prefix) + 1, Len(name))) ELSE name

RECURSIVE EnvData(_, _, _)
\* the loop of EnvironmentConfigMiddleware.run over os.environ.items()
EnvData(mw, environ, data) ==
    IF Len(environ) = 0 THEN data
    ELSE LET var == Head(environ)
         IN IF ~StartsWith(var.name, mw.prefix)
            THEN EnvData(mw, Tail(environ), data)
            ELSE EnvData(mw, Tail(environ),
                         Put(data, Spell(EnvKey(mw.prefix, mw.lower, var.name)),
                             Decode(var.value)))

\* merge_dicts(args.__dict__, *layers, overwrite=..., recurse=...) for the
\* namespace and layers as dict literals, and args.__dict__.update(result)
MergeInto(ns, layers, overwrite, recurse) ==
    LET a == AllocAll(<<>>, <<ns>> \o layers, <<>>)
        r == MergeDicts(a.heap, a.addrs[1], Tail(a.addrs), overwrite, recurse)
    IN Deref(r.heap, r.addr)

\* EnvironmentConfigMiddleware.run(args)
EnvironmentConfigRun(mw, environ, ns) ==
    [ns |-> MergeInto(ns, <<EnvData(mw, environ, {})>>, mw.overwrite, mw.merge),
     raised |-> FALSE]

\* the variables a process may have, and their values
EnvNames == {<<"PFX_", "FOO">>, <<"PFX_", "BAR">>, <<"OTHER">>, <<"pfx_", "foo">>,
             <<"PFX_", "foo">>}
EnvValues == {<<"1">>, <<"hello">>, <<"ignored">>}

\* os.environ: variables with pairwise distinct names, in the order of items()
Environs ==
    {e \in UNION {[1..n -> [name : EnvNames, value : EnvValues]] : n \in 0..MaxEnv} :
        /\ \A i, j \in DOMAIN e : i # j => e[i].name # e[j].name
        /\ \A i \in DOMAIN e : (e[i].value = <<"ignored">>) = (e[i].name = <<"OTHER">>)}

\* EnvironmentConfigMiddleware(prefix, lower=..., overwrite=...) and the
\* namespace and environment of a call of its run
EnvironmentInputs ==
    {[kind |-> "environment", prefix |-> <<"PFX_">>, lower |-> lower,
      overwrite |-> overwrite, merge |-> TRUE, environ |-> environ, ns |-> ns] :
        lower \in BOOLEAN, overwrite \in BOOLEAN, environ \in Environs,
        ns \in {{}, {E("foo", IntV(3))}}}

NotRun == [done |-> FALSE, ns |-> {}, raised |-> FALSE]

\* no middleware under test: the state of the other specifications
NoConfig == cin = [kind |-> "none"] /\ cout = NotRun

\* item.run(args) for an EnvironmentConfigMiddleware
EnvironmentRun ==
    /\ cin.kind = "environment"
    /\ ~cout.done
    /\ LET r == EnvironmentConfigRun(cin, cin.environ, cin.ns)
       IN cout' = [done |-> TRUE, ns |-> r.ns, raised |-> r.raised]
    /\ UNCHANGED <<cin, pvars, mvars, svars>>

\* the -e occurrences of one command line
MaxInline == 2

ListV(items) == [t |-> "list", v |-> items]

RECURSIVE Find(_, _, _)
\* text.find(sym) from position i (1-based), 0 when there is none
Find(text, sym, i) ==
    IF i > Len(text) THEN 0 ELSE IF text[i] = sym THEN i ELSE Find(text, sym, i + 1)

RECURSIVE RFind(_, _, _)
\* text.rfind(sym) down from position i, 0 when there is none
RFind(text, sym, i) ==
    IF i < 1 THEN 0 ELSE IF text[i] = sym THEN i ELSE RFind(text, sym, i - 1)

\* item.rsplit('=', 1)
SplitLast(item) ==
    [key |-> SubSeq(item, 1, RFind(item, "=", Len(item)) - 1),
     value |-> SubSeq(item, RFind(item, "=", Len(item)) + 1, Len(item))]

\* key, value = item.split('=', 1), for an item that holds an '='
SplitOnce(item) ==
    [key |-> SubSeq(item, 1, Find(item, "=", 1) - 1),
     value |-> SubSeq(item, Find(item, "=", 1) + 1, Len(item))]

RECURSIVE InlineItems(_, _)
\* the loop of InlineConfigMiddleware.run over args.config_env: one dict per
\* item that holds an '='
InlineItems(texts, items) ==
    IF Len(texts) = 0 THEN items
    ELSE IF Find(Head(texts), "=", 1) = 0 THEN InlineItems(Tail(texts), items)
    ELSE LET kv == SplitOnce(Head(texts))
         IN InlineItems(Tail(texts),
                        Append(items, {E(Spell(kv.key), Decode(kv.value))}))

\* args.config_env or []
ConfigEnv(ns) == IF Get(ns, "config_env").t = "list" THEN Get(ns, "config_env").v ELSE <<>>

\* InlineConfigMiddleware.run(args)
InlineConfigRun(mw, ns) ==
    [ns |-> Del(MergeInto(ns, InlineItems(ConfigEnv(ns), <<>>), mw.overwrite, mw.merge),
                "config_env"),
     raised |-> FALSE]

\* the texts given to -e
InlineTexts == {<<"count", "=", "3">>, <<"count", "=", "1">>, <<"name", "=", "bob">>,
                <<"name", "=", "\"", "bob", "\"">>, <<"k", "=", "a", "=", "b">>,
                <<"a", "=", "{", "\"", "x", "\"", ":", "1", "}">>, <<"noequals">>}

\* InlineConfigMiddleware(overwrite=..., merge=...) and the namespace the base
\* parser left: config_env is None or the list of the -e texts
InlineConfigInputs ==
    {[kind |-> "inlineconfig", overwrite |-> overwrite, merge |-> merge,
      ns |-> rest \cup {E("config_env", IF Len(texts) = 0 THEN MNone ELSE ListV(texts))}] :
        overwrite \in BOOLEAN, merge \in BOOLEAN,
        texts \in UNION {[1..n -> InlineTexts] : n \in 0..MaxInline},
        rest \in {{}, {E("count", IntV(1))}, {E("a", Lit({E("y", IntV(2))}))}}}

\* item.run(args) for an InlineConfigMiddleware
InlineConfigRunStep ==
    /\ cin.kind = "inlineconfig"
    /\ ~cout.done
    /\ LET r == InlineConfigRun(cin, cin.ns)
       IN cout' = [done |-> TRUE, ns |-> r.ns, raised |-> r.raised]
    /\ UNCHANGED <<cin, pvars, mvars, svars>>


\* the merge of the defaults with overwrite=True
InjectRunOverwrite(mw, ns) ==
    [ns |-> MergeInto(ns, <<mw.defaults>>, TRUE, TRUE), raised |-> FALSE]

\* InjectMiddleware.run(args): merge_dicts(args.__dict__, self.defaults,
\* overwrite=False, recurse=True) and args.__dict__.update(result)
InjectRun(mw, ns) ==
    [ns |-> MergeInto(ns, <<mw.defaults>>, FALSE, TRUE), raised |-> FALSE]

\* the namespaces the parser leaves when a registered flag was not given:
\* the flag's dest holds None
UnsetDicts == { {E("a", MNone)}, {E("a", MNone), E("b", IntV(1))} }

\* InjectMiddleware(defaults) and the namespace of a call of its run
InjectInputs ==
    {[kind |-> "inject", defaults |-> defaults, ns |-> ns] :
        defaults \in InputDicts, ns \in InputDicts \cup UnsetDicts}

\* item.run(args) for an InjectMiddleware
InjectRunStep ==
    /\ cin.kind = "inject"
    /\ ~cout.done
    /\ LET r == InjectRun(cin, cin.ns)
       IN cout' = [done |-> TRUE, ns |-> r.ns, raised |-> r.raised]
    /\ UNCHANGED <<cin, pvars, mvars, svars>>

\* the files named on one command line
MaxFiles == 2

\* os.path.isabs(name)
IsAbs(name) == Len(name) > 0 /\ name[1] = "/"

\* os.path.join(path, name)
PathJoin(path, name) == IF IsAbs(name) THEN name ELSE path \o <<"/">> \o name

\* the filenames a user gives, and the search directories
RelA == <<"a", ".json">>
RelB == <<"b", ".json">>
AbsC == <<"/", "c", ".json">>
Dir1 == <<"/", "s1">>
Dir2 == <<"/", "s2">>

\* the document of each file, by pathname (a relative pathname is a file of
\* the working directory)
Document(pathname) ==
    CASE pathname = PathJoin(Dir1, RelA) -> {E("a", Lit({E("x", IntV(1))}))}
      [] pathname = PathJoin(Dir1, RelB) -> {E("a", Lit({E("y", IntV(2))}))}
      [] pathname = AbsC -> {E("a", Lit({E("x", Lit({E("b", IntV(1))}))})),
                             E("x", Lit({E("y", IntV(1))}))}
      [] pathname = RelA -> {E("b", IntV(1))}
      [] pathname = PathJoin(Dir2, RelA) -> {E("b", IntV(2))}
      [] OTHER -> {}

\* the file systems: the pathnames that exist
FileSystems ==
    { {PathJoin(Dir1, RelA), PathJoin(Dir1, RelB), AbsC},
      {PathJoin(Dir1, RelA), PathJoin(Dir2, RelA), AbsC, RelA},
      {AbsC, RelA} }

\* os.path.isfile(pathname) or os.path.islink(pathname)
IsFile(fs, pathname) == pathname \in fs

\* a directory is no configuration file: loading it raises
IsDir(pathname) == pathname = <<"/">>

\* whether a value is true in a condition: a non-empty str or list
Truthy(value) == value.t \in {"str", "list"} /\ Len(value.v) > 0

\* list(files): the items of a list, the characters of a str
Iterate(files) ==
    IF files.t = "str" THEN [i \in DOMAIN files.v |-> <<files.v[i]>>] ELSE files.v

\* files.remove(filename): without the first occurrence
RemoveFirst(files, filename) ==
    LET i == CHOOSE i \in DOMAIN files :
                 files[i] = filename /\ \A j \in 1..(i - 1) : files[j] # filename
    IN SubSeq(files, 1, i - 1) \o SubSeq(files, i + 1, Len(files))

RECURSIVE SearchPaths(_, _, _, _)
\* `for path in self.search_paths` for one filename: a file found is appended
\* to files and the filename removed from it; a str has no append
\* (AttributeError)
SearchPaths(fs, filename, paths, st) ==
    IF Len(paths) = 0 \/ st.raised THEN st
    ELSE LET pathname == PathJoin(Head(paths), filename)
         IN IF ~IsFile(fs, pathname) THEN SearchPaths(fs, filename, Tail(paths), st)
            ELSE IF st.files.t # "list"
            THEN [st EXCEPT !.raised = TRUE]
            ELSE LET appended == Append(st.files.v, pathname)
                     removed == IF \E i \in DOMAIN appended : appended[i] = filename
                                THEN RemoveFirst(appended, filename)
                                ELSE appended
                 IN SearchPaths(fs, filename, Tail(paths),
                                [st EXCEPT !.files = ListV(removed)])

RECURSIVE ResolveFiles(_, _, _, _)
\* `for filename in list(files)` of ConfigMiddleware.run
ResolveFiles(mw, fs, snapshot, st) ==
    IF Len(snapshot) = 0 \/ st.raised THEN st
    ELSE IF IsAbs(Head(snapshot)) THEN ResolveFiles(mw, fs, Tail(snapshot), st)
    ELSE ResolveFiles(mw, fs, Tail(snapshot),
                      SearchPaths(fs, Head(snapshot), mw.search_paths, st))

RECURSIVE AnyMerge(_, _)
\* anyconfig's default merge of a later document over an earlier one
\* (MS_DICTS): mappings are merged key by key, any other value is replaced
AnyMerge(a, b) ==
    {e \in a : ~HasKey(b, e.k)} \cup
    {E(e.k, IF HasKey(a, e.k) /\ Get(a, e.k).t = "dict" /\ e.v.t = "dict"
            THEN Lit(AnyMerge(Get(a, e.k).v, e.v.v))
            ELSE e.v) : e \in b}

\* anyconfig.load of one path: the document, nothing for a missing file with
\* ignore_missing, an exception otherwise
AnyLoadOne(fs, pathname, ignore_missing) ==
    IF IsFile(fs, pathname) THEN [raised |-> FALSE, data |-> Document(pathname)]
    ELSE IF IsDir(pathname) THEN [raised |-> TRUE, data |-> {}]
    ELSE [raised |-> ~ignore_missing, data |-> {}]

RECURSIVE AnyLoadAll(_, _, _, _)
\* anyconfig.load of a list of paths: each document merged over the previous
AnyLoadAll(fs, paths, ignore_missing, acc) ==
    IF Len(paths) = 0 \/ acc.raised THEN acc
    ELSE LET one == AnyLoadOne(fs, Head(paths), ignore_missing)
         IN AnyLoadAll(fs, Tail(paths), ignore_missing,
                       [raised |-> one.raised, data |-> AnyMerge(acc.data, one.data)])

\* anyconfig.load(files, ignore_missing=...)
AnyLoad(fs, files, ignore_missing) ==
    IF files.t = "str" THEN AnyLoadOne(fs, files.v, ignore_missing)
    ELSE AnyLoadAll(fs, files.v, ignore_missing, [raised |-> FALSE, data |-> {}])

RECURSIVE NodeLoop(_, _, _)
\* `for item in node: ref = result.get(item, {})`
NodeLoop(result, node, ref) ==
    IF Len(node) = 0 THEN ref
    ELSE NodeLoop(result, Tail(node),
                  IF HasKey(result, Head(node)) THEN Get(result, Head(node)) ELSE Lit({}))

\* dict.update(other)
Update(d, other) == {e \in d : ~HasKey(other, e.k)} \cup other

\* ConfigMiddleware.run(args): the namespace it leaves, the files it gave to
\* anyconfig.load and self.defaults as it leaves it
ConfigRun(mw, fs, ns) ==
    LET given == Get(ns, "config_file")
        files == IF Truthy(given) THEN given ELSE ListV(mw.defaults)
        st == ResolveFiles(mw, fs, Iterate(files), [files |-> files, raised |-> FALSE])
        ns1 == IF Truthy(given) THEN Put(ns, "config_file", st.files) ELSE ns
        defaults == IF Truthy(given) THEN mw.defaults ELSE st.files.v
        loaded == AnyLoad(fs, st.files, mw.ignore_missing)
        result == MergeInto(ns1, <<loaded.data>>, mw.overwrite, mw.merge)
        ref == NodeLoop(result, mw.node, Lit(result))
    IN IF st.raised
       THEN [ns |-> ns1, raised |-> TRUE, loaded |-> <<>>, defaults |-> defaults]
       ELSE IF loaded.raised \/ ref.t # "dict"
       THEN [ns |-> ns1, raised |-> TRUE, loaded |-> <<>>,
             defaults |-> defaults]
       ELSE [ns |-> Update(ns1, ref.v), raised |-> FALSE,
             loaded |-> IF st.files.t = "str" THEN <<st.files.v>> ELSE st.files.v,
             defaults |-> defaults]

\* the values of -c: None, one name without allow_multi, a list with it
ConfigFileValues(allow_multi) ==
    {MNone} \cup
    (IF allow_multi
     THEN {ListV(names) : names \in UNION {[1..n -> {RelA, RelB, AbsC}] : n \in 1..MaxFiles}}
     ELSE {Str(name) : name \in {RelA, RelB, AbsC}})

\* ConfigMiddleware(defaults, allow_multi=..., ...), the file system and the
\* namespace the base parser left
ConfigFileInputs ==
    UNION {
      {[kind |-> "config", allow_multi |-> c.allow_multi,
        ignore_missing |-> c.ignore_missing, node |-> c.node, overwrite |-> FALSE,
        merge |-> c.merge, search_paths |-> c.search_paths, defaults |-> c.defaults,
        fs |-> c.fs, ns |-> {E("config_file", value)}] :
          value \in ConfigFileValues(c.allow_multi)} :
      c \in [allow_multi : BOOLEAN, ignore_missing : BOOLEAN, merge : BOOLEAN,
             node : {<<>>, <<"a">>, <<"a", "x">>},
             search_paths : {<<Dir1>>, <<Dir1, Dir2>>},
             defaults : {<<>>, <<RelA>>}, fs : FileSystems]}

\* item.run(args) for a ConfigMiddleware
ConfigRunStep ==
    /\ cin.kind = "config"
    /\ ~cout.done
    /\ LET r == ConfigRun(cin, cin.fs, cin.ns)
       IN cout' = [done |-> TRUE, ns |-> r.ns, raised |-> r.raised,
                   loaded |-> r.loaded, defaults |-> r.defaults]
    /\ UNCHANGED <<cin, pvars, mvars, svars>>

\* the name that stands for the defaults alone
Dash == <<"-">>

\* a list of dicts
DictList(items) == [t |-> "dicts", v |-> items]

RECURSIVE ConfigListLoop(_, _, _, _)
\* `for filename in args.config_files or []` of ConfigListMiddleware.run
ConfigListLoop(mw, fs, names, acc) ==
    IF Len(names) = 0 \/ acc.raised THEN acc
    ELSE LET filename == Head(names)
             data == AnyLoadOne(fs, filename, mw.ignore_missing)
             result == IF filename = Dash THEN mw.defaults
                       ELSE MergeInto(mw.defaults, <<data.data>>, TRUE, mw.merge)
         IN ConfigListLoop(mw, fs, Tail(names),
               IF filename # Dash /\ data.raised
               THEN [raised |-> TRUE, results |-> acc.results]
               ELSE [raised |-> FALSE, results |-> Append(acc.results, result)])

\* ConfigListMiddleware.run(args), self.defaults a dict
ConfigListRun(mw, fs, ns) ==
    LET given == Get(ns, "config_files")
        names == IF Truthy(given) THEN Iterate(given) ELSE <<>>
        r == ConfigListLoop(mw, fs, names, [raised |-> FALSE, results |-> <<>>])
    IN IF r.raised THEN [ns |-> ns, raised |-> TRUE]
       ELSE [ns |-> Update(ns, {E("config_data", DictList(r.results))}), raised |-> FALSE]

\* the values of -c of a ConfigListMiddleware
ConfigListValues(allow_multi) ==
    {MNone} \cup
    (IF allow_multi
     THEN {ListV(names) : names \in UNION {[1..n -> {RelA, AbsC, Dash}] : n \in 1..MaxFiles}}
     ELSE {Str(name) : name \in {RelA, AbsC, Dash}})

\* ConfigListMiddleware(defaults, allow_multi=..., ...), the file system and
\* the namespace the base parser left
ConfigListInputs ==
    UNION {
      {[kind |-> "configlist", allow_multi |-> c.allow_multi,
        ignore_missing |-> c.ignore_missing, merge |-> c.merge,
        defaults |-> c.defaults, fs |-> c.fs, ns |-> {E("config_files", value)}] :
          value \in ConfigListValues(c.allow_multi)} :
      c \in [allow_multi : BOOLEAN, ignore_missing : BOOLEAN, merge : BOOLEAN,
             defaults : {{}, {E("b", IntV(5)), E("d", IntV(0))},
                         {E("a", Lit({E("z", IntV(0))}))}},
             fs : FileSystems]}

\* item.run(args) for a ConfigListMiddleware
ConfigListRunStep ==
    /\ cin.kind = "configlist"
    /\ ~cout.done
    /\ LET r == ConfigListRun(cin, cin.fs, cin.ns)
       IN cout' = [done |-> TRUE, ns |-> r.ns, raised |-> r.raised]
    /\ UNCHANGED <<cin, pvars, mvars, svars>>

----------------------------------------------------------------------------
(* ServerMiddleware.parse_addr of server.py.  An address text is a sequence *)
(* of characters.                                                           *)

\* the digits of a port
MaxPortDigits == 2

Digits == {"0", "1", "8"}
DigitVal(c) == CASE c = "0" -> 0 [] c = "1" -> 1 [] c = "8" -> 8 [] OTHER -> 0

RECURSIVE IntOfDigits(_, _)
IntOfDigits(text, acc) ==
    IF Len(text) = 0 THEN acc ELSE IntOfDigits(Tail(text), 10 * acc + DigitVal(Head(text)))

\* int(value): an int as it is, a str of digits as the number it writes,
\* ValueError for any other str
IntOf(value) ==
    IF value.t = "int" THEN [ok |-> TRUE, value |-> value.v]
    ELSE IF Len(value.v) > 0 /\ \A i \in DOMAIN value.v : value.v[i] \in Digits
    THEN [ok |-> TRUE, value |-> IntOfDigits(value.v, 0)]
    ELSE [ok |-> FALSE, value |-> 0]

\* whether text has sep at position i
OccursAt(text, sep, i) ==
    i + Len(sep) - 1 <= Len(text) /\ SubSeq(text, i, i + Len(sep) - 1) = sep

\* sep in text
Contains(text, sep) == \E i \in 1..Len(text) : OccursAt(text, sep, i)

RECURSIVE StrSplit(_, _)
\* text.split(sep), sep not empty: the pieces between the occurrences of sep
StrSplit(text, sep) ==
    IF ~Contains(text, sep) THEN <<text>>
    ELSE LET i == CHOOSE j \in 1..Len(text) :
                     OccursAt(text, sep, j) /\ \A l \in 1..(j - 1) : ~OccursAt(text, sep, l)
         IN <<SubSeq(text, 1, i - 1)>> \o StrSplit(SubSeq(text, i + Len(sep), Len(text)), sep)

\* `addr.split(addr)` of parse_addr
SplitAddr(addr) == StrSplit(addr, addr)

AnyHost == <<"0", ".", "0", ".", "0", ".", "0">>

\* ServerMiddleware.parse_addr(addr): the tuple returned, or raised
ParseAddr(addr) ==
    IF addr.t = "str" /\ Contains(addr.v, <<":">>)
    THEN LET parts == SplitAddr(addr.v)
         IN IF Len(parts) # 2 \/ ~IntOf(Str(parts[2])).ok
            THEN [raised |-> TRUE, host |-> <<>>, port |-> 0]
            ELSE [raised |-> FALSE,
                  host |-> IF Len(parts[1]) > 0 THEN parts[1] ELSE AnyHost,
                  port |-> IntOf(Str(parts[2])).value]
    ELSE IF IntOf(addr).ok
    THEN [raised |-> FALSE, host |-> AnyHost, port |-> IntOf(addr).value]
    ELSE [raised |-> TRUE, host |-> <<>>, port |-> 0]

\* the well-formed addresses: a port as an int, a port as a str, host:port
PortTexts == UNION {[1..n -> Digits] : n \in 1..MaxPortDigits}
HostTexts == {<<>>, <<"h">>, <<"h", ".", "o">>, <<"1", ".", "0">>, AnyHost}
AddrInputs ==
    {[kind |-> "addr", addr |-> a] :
        a \in {IntV(IntOfDigits(p, 0)) : p \in PortTexts}
              \cup {Str(p) : p \in PortTexts}
              \cup {Str(h \o <<":">> \o p) : h \in HostTexts, p \in PortTexts}}

\* a call of parse_addr
ParseAddrStep ==
    /\ cin.kind = "addr"
    /\ ~cout.done
    /\ LET r == ParseAddr(cin.addr)
       IN cout' = [done |-> TRUE, raised |-> r.raised, host |-> r.host, port |-> r.port]
    /\ UNCHANGED <<cin, pvars, mvars, svars>>

----------------------------------------------------------------------------
(* ConsoleScriptsMiddleware of setuputils.py: the command map and its cache *)
(* file.  A script name is a sequence of symbols: the package prefix, the   *)
(* separators and the command names.                                        *)

\* the changes made to the entry points and the cache file
MaxChanges == 2

\* self.prefix of the instances
Prefix == <<"pkg">>

\* the console scripts a package may install, in the order of its entry map
ScriptNames == << <<"pkg", "-", "a", "-", "b">>, <<"pkg", "-", "a">>,
                  <<"pkg", "_", "c">>, <<"other", "-", "x">> >>

\* the seconds `script --help` takes
HelpSeconds(script) == IF script = <<"pkg", "_", "c">> THEN 3 ELSE 0

\* the description get_command_desc parses from the help of a script
Desc(script) == Str(<<"help">> \o script)

\* ConsoleScriptsMiddleware(pkg_name, wait=..., cache=..., separator=...)
Instances == [separator : {"-", "_"}, wait : {1, 5}, cache : BOOLEAN]

RECURSIVE JoinTexts(_, _)
\* sep.join(texts)
JoinTexts(texts, sep) ==
    IF Len(texts) = 0 THEN <<>>
    ELSE IF Len(texts) = 1 THEN texts[1]
    ELSE texts[1] \o <<sep>> \o JoinTexts(Tail(texts), sep)

RECURSIVE TreeInsert(_, _, _, _)
\* `for name in names` of commands_map on the mapping `ref`: the last name
\* gets the description, any other name is descended into; TypeError when
\* what is descended into is a description
TreeInsert(ref, names, last, desc) ==
    IF Len(names) = 0 THEN [raised |-> FALSE, tree |-> ref]
    ELSE LET name == Head(names)
         IN IF name = last
            THEN TreeInsert(Put(ref, name, desc), Tail(names), last, desc)
            ELSE LET sub == IF HasKey(ref, name) THEN Get(ref, name) ELSE Lit({})
                 IN IF sub.t # "dict" THEN [raised |-> TRUE, tree |-> ref]
                    ELSE LET r == TreeInsert(sub.v, Tail(names), last, desc)
                         IN [raised |-> r.raised, tree |-> Put(ref, name, Lit(r.tree))]

RECURSIVE ScanEntryPoints(_, _, _)
\* `for entrypoint in iter_items.values()` of commands_map
ScanEntryPoints(mw, scripts, acc) ==
    IF Len(scripts) = 0 \/ acc.raised THEN acc
    ELSE LET script == Head(scripts)
             prefix == Prefix \o <<mw.separator>>
         IN IF ~StartsWith(script, prefix)
            THEN ScanEntryPoints(mw, Tail(scripts), acc)
            ELSE LET names == StrSplit(SubSeq(script, Len(prefix) + 1, Len(script)),
                                       <<mw.separator>>)
                     cmd == JoinTexts(names, " ")
                     r == TreeInsert(acc.tree, names, names[Len(names)], Desc(script))
                 IN IF HelpSeconds(script) > mw.wait \/ r.raised
                    THEN [acc EXCEPT !.raised = TRUE]
                    ELSE ScanEntryPoints(mw, Tail(scripts),
                            [raised |-> FALSE, tree |-> r.tree,
                             result |-> Put(acc.result, cmd, Desc(script))])

\* the entry points installed, in the order of the entry map
EntryMap(scripts) == SelectSeq(ScriptNames, LAMBDA script : script \in scripts)

\* the command map computed from the entry points: (result, tree)
ComputeMap(mw, scripts) ==
    ScanEntryPoints(mw, EntryMap(scripts), [raised |-> FALSE, tree |-> {}, result |-> {}])

NoFile == [exists |-> FALSE, result |-> {}, tree |-> {}]

\* the commands_map property: the cache file when it can be read, else the
\* map computed from the entry points and written to the cache file when
\* that can be done
CommandsMap(mw, scripts, file, writable) ==
    IF mw.cache /\ file.exists
    THEN [raised |-> FALSE, result |-> file.result, tree |-> file.tree, file |-> file]
    ELSE LET c == ComputeMap(mw, scripts)
         IN IF c.raised
            THEN [raised |-> TRUE, result |-> {}, tree |-> {}, file |-> file]
            ELSE [raised |-> FALSE, result |-> c.result, tree |-> c.tree,
                  file |-> IF mw.cache /\ writable
                           THEN [exists |-> TRUE, result |-> c.result, tree |-> c.tree]
                           ELSE file]

NoMap == [done |-> FALSE]
NoProc == [pc |-> "none"]

\* no setuptools middleware in the program
NoScripts ==
    /\ installed = {}
    /\ cachefile = NoFile
    /\ lastmap = NoMap
    /\ nchanges = 0
    /\ proc = NoProc

\* a console script is installed or uninstalled
ChangeEntryPoints(script) ==
    /\ nchanges < MaxChanges
    /\ installed' = IF script \in installed THEN installed \ {script}
                    ELSE installed \cup {script}
    /\ nchanges' = nchanges + 1
    /\ UNCHANGED <<cachefile, lastmap, proc, pvars, mvars, cvars>>

\* the cache file is deleted
DeleteCache ==
    /\ nchanges < MaxChanges
    /\ cachefile.exists
    /\ cachefile' = NoFile
    /\ nchanges' = nchanges + 1
    /\ UNCHANGED <<installed, lastmap, proc, pvars, mvars, cvars>>

\* an instance reads its commands_map
GetCommandsMap(mw, writable) ==
    /\ LET r == CommandsMap(mw, installed, cachefile, writable)
       IN /\ cachefile' = r.file
          /\ lastmap' = [done |-> TRUE, mw |-> mw, scripts |-> installed,
                         raised |-> r.raised, result |-> r.result, tree |-> r.tree]
    /\ UNCHANGED <<installed, nchanges, proc, pvars, mvars, cvars>>

----------------------------------------------------------------------------
(* ConsoleScriptsMiddleware.run: the parent process, the child it spawns    *)
(* and the signals the parent receives.                                     *)

\* the signals that arrive at the parent
MaxSignals == 2

SIGINT == 2
SIGUSR1 == 10
SIGTERM == 15
\* set(signal.Signals) - {SIGKILL, SIGSTOP}, as far as the model sends them
Forwarded == {SIGINT, SIGUSR1, SIGTERM}

\* the exit codes of a script that ends by itself
ChildCodes == {0, 3}

\* proc.returncode: None until the child has been waited for
NoReturnCode == [set |-> FALSE, code |-> 0]
ReturnCode(code) == [set |-> TRUE, code |-> code]

\* the exit status sys.exit(returncode) gives the process
ExitStatus(returncode) == IF returncode.set THEN returncode.code % 256 ELSE 0

\* the parent at the start of run, `sel` what the command line selected: no
\* command, a group of commands, or a command of commands_map
NewProc(sel) ==
    [pc |-> "run", sel |-> sel, handlers |-> {}, child |-> "none", childcode |-> 0,
     returncode |-> NoReturnCode, received |-> <<>>, relayed |-> <<>>,
     exitcode |-> 0, help |-> FALSE, nsig |-> 0]

\* print_help() and sys.exit(0): no entrypoint, or a name that is no command
PrintHelp ==
    /\ proc.pc = "run"
    /\ proc.sel \in {"none", "group"}
    /\ proc' = [proc EXCEPT !.pc = "exited", !.help = TRUE, !.exitcode = 0]
    /\ UNCHANGED <<installed, cachefile, lastmap, nchanges, pvars, mvars, cvars>>

\* proc = subprocess.Popen([script] + args.entrypoint_nargs)
Spawn ==
    /\ proc.pc = "run"
    /\ proc.sel = "known"
    /\ proc' = [proc EXCEPT !.pc = "install", !.child = "running"]
    /\ UNCHANGED <<installed, cachefile, lastmap, nchanges, pvars, mvars, cvars>>

\* Popen raises: the script is not on the path
SpawnFails ==
    /\ proc.pc = "run"
    /\ proc.sel = "known"
    /\ proc' = [proc EXCEPT !.pc = "raised"]
    /\ UNCHANGED <<installed, cachefile, lastmap, nchanges, pvars, mvars, cvars>>

\* one turn of `for signum in ...: signal.signal(signum, forward_signal)`, in
\* the order of the set; proc.communicate() begins after the last
InstallHandler(signum) ==
    /\ proc.pc = "install"
    /\ signum \in Forwarded \ proc.handlers
    /\ proc' = [proc EXCEPT !.handlers = @ \cup {signum},
                            !.pc = IF proc.handlers \cup {signum} = Forwarded
                                   THEN "wait" ELSE "install"]
    /\ UNCHANGED <<installed, cachefile, lastmap, nchanges, pvars, mvars, cvars>>

\* the state of the child after os.kill(pid, signum): it dies of the signal
\* or handles it
Signalled(p, signum, dies) ==
    IF dies THEN [p EXCEPT !.child = "exited", !.childcode = 0 - signum] ELSE p

\* proc.send_signal(signum): poll(), and os.kill when the child has not
\* been found dead
SendSignal(p, signum, dies) ==
    IF p.child = "exited" THEN [p EXCEPT !.returncode = ReturnCode(p.childcode)]
    ELSE Signalled([p EXCEPT !.relayed = Append(@, signum)], signum, dies)

\* forward_signal(signum, _frame), when it is the handler of signum; the
\* default action of the signal, which ends the parent, when it is not
ForwardSignal(p, signum, dies) ==
    IF signum \in p.handlers THEN SendSignal(p, signum, dies)
    ELSE [p EXCEPT !.pc = "killed", !.exitcode = 0 - signum]

\* a signal arrives at the parent after the child was spawned
SignalArrives(signum, dies) ==
    /\ proc.pc \in {"install", "wait"}
    /\ proc.nsig < MaxSignals
    /\ LET p == [proc EXCEPT !.nsig = @ + 1,
                             !.received = IF proc.child = "running"
                                          THEN Append(@, signum) ELSE @]
       IN proc' = ForwardSignal(p, signum, dies)
    /\ UNCHANGED <<installed, cachefile, lastmap, nchanges, pvars, mvars, cvars>>

\* the script ends by itself
ChildExits(code) ==
    /\ proc.pc \in {"install", "wait"}
    /\ proc.child = "running"
    /\ proc' = [proc EXCEPT !.child = "exited", !.childcode = code]
    /\ UNCHANGED <<installed, cachefile, lastmap, nchanges, pvars, mvars, cvars>>

\* sys.exit(proc.returncode)
SysExit(p) == [p EXCEPT !.pc = "exited", !.exitcode = ExitStatus(p.returncode)]

\* proc.communicate() returns once the child has ended; sys.exit
WaitReturns ==
    /\ proc.pc = "wait"
    /\ proc.child = "exited"
    /\ proc' = SysExit([proc EXCEPT !.returncode = ReturnCode(proc.childcode)])
    /\ UNCHANGED <<installed, cachefile, lastmap, nchanges, pvars, mvars, cvars>>

\* proc.communicate() raises an Exception: proc.terminate(), which sends
\* SIGTERM of its own and does not wait for the child, and sys.exit
WaitRaises(dies) ==
    /\ proc.pc = "wait"
    /\ proc' = SysExit([SendSignal(proc, SIGTERM, dies) EXCEPT !.relayed = proc.relayed])
    /\ UNCHANGED <<installed, cachefile, lastmap, nchanges, pvars, mvars, cvars>>

----------------------------------------------------------------------------
(* The specifications. *)

\* no merge in progress: the state of the merge engine's caller in the
\* pipeline specifications
NoMerge ==
    /\ mheap = <<>>
    /\ mheap0 = <<>>
    /\ margs = [data |-> 0, args |-> <<>>]
    /\ mres = NotCalled

InitPipeline ==
    /\ middlewares = <<>>
    /\ parser = NewParser
    /\ sysargv \in ArgvChoices
    /\ stack = <<>>
    /\ outcome = [status |-> "idle", code |-> 0, help |-> <<"none">>]
    /\ log = <<>>
    /\ invoked = <<>>
    /\ returned = <<>>
    /\ ncalls = 0
    /\ configured = {}

Init == InitPipeline /\ NoMerge /\ NoConfig /\ NoScripts

----------------------------------------------------------------------------
(* CommandsMiddleware.run. *)

RECURSIVE ReconstructKeepNone(_, _)
\* the loop with the test of None moved before the delattr
ReconstructKeepNone(ns, parts) ==
    LET key == TempKey(parts)
    IN IF ~HasKey(ns, key) \/ Get(ns, key) = None THEN [ns |-> ns, parts |-> parts]
       ELSE ReconstructKeepNone(Del(ns, key), parts \o Get(ns, key).v)

RECURSIVE Reconstruct(_, _)
\* the while loop of CommandsMiddleware.run: walk the synthetic keys from
\* depth 0, deleting each key read, until one is missing or holds None
Reconstruct(ns, parts) ==
    LET key == TempKey(parts)
    IN IF ~HasKey(ns, key) THEN [ns |-> ns, parts |-> parts]
       ELSE IF Get(ns, key) = None THEN [ns |-> Del(ns, key), parts |-> parts]
       ELSE Reconstruct(Del(ns, key), parts \o Get(ns, key).v)

\* name.startswith(command.command) in the place of the equality
MatchingPrefix(commands, name) == {c \in commands : StartsWith(name, c.command)}

\* the commands the dispatch loop stops at: command.command == name
Matching(commands, name) == {c \in commands : c.command = name}

\* CommandsMiddleware.run(args) up to its last statement: the namespace it
\* leaves, the name it reconstructed, the commands whose handler it invoked
\* (the command the loop stops at, when it has a handler) and whether it falls
\* through to the help fallback
CommandsRun(item, ns) ==
    LET rec == Reconstruct(ns, <<>>)
        name == rec.parts
        ns2 == Put(rec.ns, <<"command">>, Str(name))
        match == Matching(item.commands, name)
    IN [ns |-> ns2,
        name |-> name,
        handled |-> IF match # {} /\ FirstCommand(match).handler
                    THEN {FirstCommand(match)} ELSE {},
        fallback |-> match = {} /\ item.argparser # "None"]

----------------------------------------------------------------------------
(* The pipeline: ArgumentParser.add_middleware, parse_args and run. *)

\* self.middlewares.insert(0, item) in the place of the append
AppendMiddlewareFront(mws, item) == <<item>> \o mws

\* ArgumentParser.add_middleware(item)
AppendMiddleware(mws, item) == Append(mws, item)

\* the middleware a configure call may still register
Growth(item) ==
    CASE item.kind = "wrapper" -> item.chain
      [] item.kind = "gunicorn" -> 1
      [] item.kind = "hook" -> item.chain
      [] OTHER -> 0

RECURSIVE TotalGrowth(_)
TotalGrowth(mws) ==
    IF Len(mws) = 0 THEN 0 ELSE Growth(Head(mws)) + TotalGrowth(Tail(mws))

HasKind(mws, kind, chain) ==
    \E i \in DOMAIN mws : mws[i].kind = kind /\ mws[i].chain = chain

\* item.configure(parser) for each middleware class: the middleware list and
\* the parser it leaves, and whether argparse raised ArgumentError
Configure(mws, p, index) ==
    LET item == mws[index]
        added == AddArguments(p, ConfigureFlags(item.kind))
    IN CASE item.kind = "commands" ->
              IF item.argparser = "parser"
              THEN [mws |-> mws, parser |-> p, raised |-> FALSE]
              ELSE [mws |-> [mws EXCEPT ![index].argparser = "parser"],
                    parser |-> ApplyAll(p, item.commands),
                    raised |-> FALSE]
         [] item.kind = "gunicorn" ->
              IF added.raised \/ HasKind(mws, "logging", 0)
              THEN [mws |-> mws, parser |-> added.parser, raised |-> added.raised]
              ELSE [mws |-> AppendMiddleware(mws, NewMiddleware("logging", 0, Len(mws) + 1)),
                    parser |-> added.parser, raised |-> FALSE]
         [] item.kind = "wrapper" ->
              \* self.conf(parser): a callback that registers a further
              \* wrapper unless the list already holds it
              IF item.chain = 0 \/ HasKind(mws, "wrapper", item.chain - 1)
              THEN [mws |-> mws, parser |-> p, raised |-> FALSE]
              ELSE [mws |-> AppendMiddleware(mws,
                                NewMiddleware("wrapper", item.chain - 1, Len(mws) + 1)),
                    parser |-> p, raised |-> FALSE]
         [] OTHER ->
              [mws |-> mws, parser |-> added.parser, raised |-> added.raised]

Top == stack[Len(stack)]
SetTop(f) == [stack EXCEPT ![Len(stack)] = f]
Pop == SubSeq(stack, 1, Len(stack) - 1)
\* an entry of the log: a call of configure or run of middleware `mw`, or the
\* base parser's parse (mw = 0) of `toks`; `depth` is the number of middleware
\* calls still executing when it begins, `n` the length of the list, `again`
\* whether the middleware was configured on this parser before
Event(ev, id, kind) ==
    [ev |-> ev, mw |-> id, kind |-> kind, depth |-> Len(stack) - 1,
     n |-> Len(middlewares), toks |-> <<>>, again |-> FALSE, changed |-> FALSE,
     raised |-> FALSE]
Frame(op, argv) == [op |-> op, pc |-> "configure", index |-> 1, argv |-> argv, ns |-> {}]
Given(toks) == [given |-> TRUE, toks |-> toks]
NotGiven == [given |-> FALSE, toks |-> <<>>]
Running == outcome.status = "running" /\ Len(stack) > 0
Idle == outcome.status = "idle"

\* the program registers a middleware: parser.add_middleware(Class(...))
AddMiddleware(kind, chain, max) ==
    /\ Idle
    /\ LET item == NewMiddleware(kind, chain, Len(middlewares) + 1)
       IN /\ Len(middlewares) + TotalGrowth(middlewares) + 1 + Growth(item) <= max
          /\ middlewares' = AppendMiddleware(middlewares, item)
    /\ UNCHANGED <<parser, sysargv, stack, outcome, log, invoked, returned, ncalls, configured>>

\* the program registers a command: CommandsMiddleware.add_command(path, handler)
AddCommand(i, path, handler) ==
    /\ Idle
    /\ i \in DOMAIN middlewares
    /\ middlewares[i].kind = "commands"
    /\ \A c \in middlewares[i].commands : c.command # path
    /\ middlewares' = [middlewares EXCEPT ![i].commands =
                          @ \cup {[command |-> path, handler |-> handler]}]
    /\ UNCHANGED <<parser, sysargv, stack, outcome, log, invoked, returned, ncalls, configured>>

\* the program calls parser.parse_args(argv) or parser.run(argv)
Call(op, argv) ==
    /\ Idle
    /\ ncalls < MaxCalls
    /\ stack' = <<Frame(op, argv)>>
    /\ outcome' = [outcome EXCEPT !.status = "running"]
    /\ log' = <<>>
    /\ invoked' = <<>>
    /\ returned' = <<>>
    /\ ncalls' = ncalls + 1
    /\ UNCHANGED <<middlewares, parser, sysargv, configured>>

\* whether the loop of parse_args or run still finds middlewares[index]
HasItem(mws, index) == index <= Len(mws)

\* one turn of the loop of parse_args: item.configure(self)
ConfigureStep ==
    /\ Running
    /\ Top.pc = "configure"
    /\ HasItem(middlewares, Top.index)
    /\ LET r == Configure(middlewares, parser, Top.index)
       IN /\ middlewares' = r.mws
          /\ parser' = r.parser
          /\ stack' = SetTop([Top EXCEPT !.index = @ + 1])
          /\ outcome' = IF r.raised
                        THEN [status |-> "raised", code |-> 1, help |-> <<"ArgumentError">>]
                        ELSE outcome
          /\ configured' = IF r.raised THEN configured
                           ELSE configured \cup {middlewares[Top.index].id}
          /\ log' = Append(log,
                 [Event("configure", middlewares[Top.index].id, middlewares[Top.index].kind)
                    EXCEPT !.again = middlewares[Top.index].id \in configured,
                           !.changed = r.parser # parser,
                           !.raised = r.raised])
    /\ UNCHANGED <<sysargv, invoked, returned, ncalls>>

\* the end of the loop of parse_args and super().parse_args(argv)
ParseStep ==
    /\ Running
    /\ Top.pc = "configure"
    /\ ~HasItem(middlewares, Top.index)
    /\ LET toks == IF Top.argv.given THEN Top.argv.toks ELSE sysargv
           r == BaseParseArgs(parser, toks)
       IN /\ log' = Append(log, [Event("parse", 0, "parser") EXCEPT !.toks = toks])
          /\ CASE r.kind = "exit" ->
                    /\ outcome' = [status |-> "exited", code |-> r.code, help |-> r.help]
                    /\ UNCHANGED <<stack, returned>>
               [] r.kind = "ok" /\ Top.op = "parse_args" ->
                    /\ stack' = Pop
                    /\ returned' = <<r.ns>>
                    /\ outcome' = [outcome EXCEPT !.status = "idle"]
               [] OTHER ->
                    /\ stack' = SetTop([Top EXCEPT !.pc = "run", !.index = 1, !.ns = r.ns])
                    /\ UNCHANGED <<outcome, returned>>
    /\ UNCHANGED <<middlewares, parser, sysargv, invoked, ncalls, configured>>

\* the namespace with `id` added to the list it holds under `seen`
Seen(ns) == IF HasKey(ns, <<"seen">>) THEN Get(ns, <<"seen">>).v ELSE <<>>
Mark(ns, id) == Put(ns, <<"seen">>, [t |-> "list", v |-> Append(Seen(ns), id)])

\* a func that is given a copy of the namespace: its mark is lost
HookRunOnCopy(mws, item, ns) ==
    [mws |-> IF item.chain = 0 \/ HasKind(mws, "hook", item.chain - 1) THEN mws
             ELSE AppendMiddleware(mws, NewMiddleware("hook", item.chain - 1, Len(mws) + 1)),
     ns |-> ns]

\* WrapperMiddleware.run of a "hook": self.func(args) with a func that marks
\* the namespace and registers a further hook with parser.add_middleware
\* unless the list already holds it
HookRun(mws, item, ns) ==
    [mws |-> IF item.chain = 0 \/ HasKind(mws, "hook", item.chain - 1) THEN mws
             ELSE AppendMiddleware(mws, NewMiddleware("hook", item.chain - 1, Len(mws) + 1)),
     ns |-> Mark(ns, item.id)]

\* the classes whose run is modelled
RunKinds == {"commands", "wrapper", "inlineconfig", "hook"}

\* one turn of the loop of run: item.run(namespace)
RunStep ==
    /\ Running
    /\ Top.pc = "run"
    /\ HasItem(middlewares, Top.index)
    /\ LET item == middlewares[Top.index]
           next == [Top EXCEPT !.index = @ + 1]
       IN /\ item.kind \in RunKinds
          /\ log' = Append(log, Event("run", item.id, item.kind))
          /\ CASE item.kind = "commands" ->
                    LET r == CommandsRun(item, Top.ns)
                        done == [next EXCEPT !.ns = r.ns]
                    IN /\ invoked' = invoked \o
                            (IF r.handled = {} THEN <<>>
                             ELSE <<[command |-> FirstCommand(r.handled).command,
                                     name |-> r.name, mw |-> item.id, ns |-> r.ns,
                                     toks |-> IF Top.argv.given THEN Top.argv.toks
                                              ELSE sysargv,
                                     depth |-> Len(stack) - 1]>>)
                       /\ IF r.fallback
                          THEN \* sys.argv.append('--help'); self.argparser.run()
                               /\ sysargv' = Append(sysargv, "--help")
                               /\ stack' = Append(SetTop(done), Frame("run", NotGiven))
                          ELSE /\ stack' = SetTop(done)
                               /\ UNCHANGED sysargv
                       /\ UNCHANGED middlewares
               [] item.kind = "inlineconfig" ->
                    \* no -e on the command line: the merge adds nothing, and
                    \* the raw value is deleted
                    /\ stack' = SetTop([next EXCEPT !.ns = Del(@, <<"config_env">>)])
                    /\ UNCHANGED <<middlewares, sysargv, invoked>>
               [] item.kind = "hook" ->
                    LET r == HookRun(middlewares, item, Top.ns)
                    IN /\ middlewares' = r.mws
                       /\ stack' = SetTop([next EXCEPT !.ns = r.ns])
                       /\ UNCHANGED <<sysargv, invoked>>
               [] OTHER ->
                    \* WrapperMiddleware.run: self.func(args), a function that
                    \* leaves the namespace alone
                    /\ stack' = SetTop(next)
                    /\ UNCHANGED <<middlewares, sysargv, invoked>>
    /\ UNCHANGED <<parser, outcome, returned, ncalls, configured>>

\* the end of the loop of run: return namespace
ReturnStep ==
    /\ Running
    /\ Top.pc = "run"
    /\ ~HasItem(middlewares, Top.index)
    /\ stack' = Pop
    /\ IF Len(stack) = 1
       THEN /\ returned' = <<Top.ns>>
            /\ outcome' = [outcome EXCEPT !.status = "idle"]
       ELSE UNCHANGED <<returned, outcome>>
    /\ UNCHANGED <<middlewares, parser, sysargv, log, invoked, ncalls, configured>>

\* the middleware the program of the pipeline specification registers
PipeKinds == {"commands", "wrapper", "inlineconfig"}

NextPipeline ==
    \/ \E kind \in PipeKinds, chain \in {0, 1} :
          (chain > 0 => kind = "wrapper") /\ AddMiddleware(kind, chain, MaxPipeline)
    \/ \E i \in 1..MaxMiddlewares, path \in CommandPaths :
          AddCommand(i, path, TRUE)
    \/ \E argv \in {Given(a) : a \in ArgvChoices} \cup {NotGiven} : Call("run", argv)
    \/ ConfigureStep
    \/ ParseStep
    \/ RunStep
    \/ ReturnStep

Next == NextPipeline /\ UNCHANGED <<mvars, cvars, svars>>

\* the pipeline specification: a program that registers middleware and
\* commands and calls parser.run
Spec == Init /\ [][Next]_vars

InitConf == InitPipeline /\ sysargv = <<>> /\ NoMerge /\ NoConfig /\ NoScripts

NextConf ==
    /\ \/ \E kind \in Kinds, chain \in {0, 1, 2} :
             (chain > 0 => kind = "wrapper") /\ AddMiddleware(kind, chain, MaxMiddlewares)
       \/ Call("parse_args", Given(<<>>))
       \/ ConfigureStep
       \/ ParseStep
    /\ UNCHANGED <<mvars, cvars, svars>>

\* the configure specification: a program that registers middleware of every
\* class and calls parser.parse_args
SpecConf == InitConf /\ [][NextConf]_vars

InitMergeOnly ==
    /\ InitMerge
    /\ NoConfig
    /\ NoScripts
    /\ middlewares = <<>>
    /\ parser = NewParser
    /\ sysargv = <<>>
    /\ stack = <<>>
    /\ outcome = [status |-> "idle", code |-> 0, help |-> <<"none">>]
    /\ log = <<>>
    /\ invoked = <<>>
    /\ returned = <<>>
    /\ ncalls = 0
    /\ configured = {}

NextMerge ==
    /\ \E overwrite \in BOOLEAN, recurse \in BOOLEAN : MergeCall(overwrite, recurse)
    /\ UNCHANGED <<pvars, cvars, svars>>

\* the merge specification: a caller of merge_dicts
SpecMerge == InitMergeOnly /\ [][NextMerge]_vars

ConfigInputs ==
    EnvironmentInputs \cup InlineConfigInputs \cup InjectInputs \cup ConfigFileInputs
        \cup ConfigListInputs

InitConfig ==
    /\ InitPipeline /\ sysargv = <<>> /\ NoMerge /\ NoScripts
    /\ cin \in ConfigInputs /\ cout = NotRun

NextConfig ==
    \/ EnvironmentRun
    \/ InlineConfigRunStep
    \/ InjectRunStep
    \/ ConfigRunStep
    \/ ConfigListRunStep

\* the configuration specification: one call of run of a middleware of
\* config.py on a namespace
SpecConfig == InitConfig /\ [][NextConfig]_vars

\* the applications of commands to one parser the tree specification makes
MaxApplies == 3

\* the paths applied to the parser so far
Applied == UNION {log[i].paths : i \in DOMAIN log}

\* command.apply(parser) for one command
TreeApply(path) ==
    /\ Len(log) < MaxApplies
    /\ parser' = Apply(parser, [command |-> path, handler |-> TRUE])
    /\ log' = Append(log, [ev |-> "apply", paths |-> {path}])
    /\ UNCHANGED <<middlewares, sysargv, stack, outcome, invoked, returned, ncalls, configured>>

\* the loop of CommandsMiddleware.configure over a command list
TreeApplyAll(paths) ==
    /\ Len(log) < MaxApplies
    /\ parser' = ApplyAll(parser, {[command |-> path, handler |-> TRUE] : path \in paths})
    /\ log' = Append(log, [ev |-> "configure", paths |-> paths])
    /\ UNCHANGED <<middlewares, sysargv, stack, outcome, invoked, returned, ncalls, configured>>

NextTree ==
    /\ \/ \E path \in CommandPaths : TreeApply(path)
       \/ \E paths \in SUBSET CommandPaths : Cardinality(paths) >= 2 /\ TreeApplyAll(paths)
    /\ UNCHANGED <<mvars, cvars, svars>>

\* the tree specification: commands applied to one parser, again and again
SpecTree == InitConf /\ [][NextTree]_vars

\* the address specification: one call of parse_addr on each well-formed
\* address
InitAddr ==
    /\ InitPipeline /\ sysargv = <<>> /\ NoMerge /\ NoScripts
    /\ cin \in AddrInputs /\ cout = NotRun

NextAddr == ParseAddrStep

SpecAddr == InitAddr /\ [][NextAddr]_vars

InitCache ==
    /\ InitPipeline /\ sysargv = <<>> /\ NoMerge /\ NoConfig
    /\ installed \in {{ScriptNames[2]}, {ScriptNames[1], ScriptNames[3]}}
    /\ cachefile = NoFile
    /\ lastmap = NoMap
    /\ nchanges = 0
    /\ proc = NoProc

NextCache ==
    \/ \E i \in DOMAIN ScriptNames : ChangeEntryPoints(ScriptNames[i])
    \/ DeleteCache
    \/ \E mw \in Instances, writable \in BOOLEAN : GetCommandsMap(mw, writable)

\* the cache specification: instances of ConsoleScriptsMiddleware of one
\* package read commands_map while scripts are installed and uninstalled
\* and the cache file is deleted
SpecCache == InitCache /\ [][NextCache]_vars

InitDispatch ==
    /\ InitPipeline /\ sysargv = <<>> /\ NoMerge /\ NoConfig
    /\ installed = {}
    /\ cachefile = NoFile
    /\ lastmap = NoMap
    /\ nchanges = 0
    /\ proc \in {NewProc(sel) : sel \in {"none", "group", "known"}}

NextDispatch ==
    \/ PrintHelp
    \/ Spawn
    \/ SpawnFails
    \/ \E signum \in Forwarded : InstallHandler(signum)
    \/ \E signum \in Forwarded, dies \in BOOLEAN : SignalArrives(signum, dies)
    \/ \E code \in ChildCodes : ChildExits(code)
    \/ WaitReturns
    \/ \E dies \in BOOLEAN : WaitRaises(dies)

\* the dispatch specification: one call of ConsoleScriptsMiddleware.run,
\* its child process and the signals that arrive at the parent
SpecDispatch == InitDispatch /\ [][NextDispatch]_vars

\* the hooks a program registers
MaxHooks == 3

NextRun ==
    /\ \/ \E chain \in 0..2 : AddMiddleware("hook", chain, MaxHooks)
       \/ Call("run", Given(<<>>))
       \/ ConfigureStep
       \/ ParseStep
       \/ RunStep
       \/ ReturnStep
    /\ UNCHANGED <<mvars, cvars, svars>>

\* the run specification: a program that registers wrapper middleware whose
\* func registers further middleware, and calls parser.run
SpecRun == InitConf /\ [][NextRun]_vars

----------------------------------------------------------------------------
(* The properties stated of the program, and the states they are about. *)

IsCall(e) == e.ev \in {"configure", "run"}
NoSynthetic(ns) == \A k \in Keys(ns) : ~IsSynthetic(k)
CommandsIndexes == {i \in DOMAIN middlewares : middlewares[i].kind = "commands"}
ById(id) == middlewares[CHOOSE i \in DOMAIN middlewares : middlewares[i].id = id]
PathsOf(item) == {c.command : c \in item.commands}

\* C1: during one call of run, every configure call precedes the base
\* parser's parse, every run call follows it, the run calls come in
\* registration order, and no middleware call begins while another one is
\* still executing, also with a CommandsMiddleware in the pipeline.
C1_PhasesInSequence ==
    \A i \in DOMAIN log :
        /\ IsCall(log[i]) => log[i].depth = 0
        /\ log[i].ev = "configure" => \A j \in 1..(i - 1) : log[j].ev # "parse"
        /\ log[i].ev = "run" =>
              /\ \E j \in 1..(i - 1) : log[j].ev = "parse"
              /\ \A j \in 1..(i - 1) : log[j].ev = "run" => log[j].mw < log[i].mw

\* C2: a middleware appended by a configure call during the configure phase
\* is itself configured in that phase, before the base parser parses, for
\* every chain of such appends; and no middleware is configured twice in one
\* phase.
C2_AppendedAreConfigured ==
    /\ \A i, j \in DOMAIN log :
          (i < j /\ log[i].ev = "configure" /\ log[j].ev = "configure"
                 /\ log[i].depth = log[j].depth)
             => log[i].mw # log[j].mw
    /\ \A i \in DOMAIN log :
          log[i].ev = "parse" =>
             \A id \in 1..log[i].n :
                \E j \in 1..(i - 1) :
                   /\ log[j].ev = "configure"
                   /\ log[j].depth = log[i].depth
                   /\ log[j].mw = id

\* C2's case: a wrapper registered by the program whose configure appended a
\* second wrapper, whose configure appended a third, and the parse that
\* followed the configure calls of all three.
C2_Witness ==
    /\ Len(middlewares) = 3
    /\ \A i \in 1..3 : middlewares[i].kind = "wrapper" /\ middlewares[i].chain = 3 - i
    /\ \E i \in DOMAIN log : log[i].ev = "parse" /\ log[i].n = 3

\* C3: for every class that registers flags, a second configure phase on the
\* same parser registers none of the middleware's flags again: the configure
\* call of a middleware already configured on the parser changes nothing and
\* raises nothing.
\* ServerMiddleware is abstract; the kind "gunicorn" is its concrete subclass
\* GunicornServerMiddleware, whose configure begins with super().configure.
C3_SecondConfigureIsNoOp ==
    \A i \in DOMAIN log :
        (log[i].ev = "configure" /\ log[i].again
            /\ log[i].kind \in {"commands", "config", "configlist", "inlineoption",
                                "inlineconfig", "logging", "gunicorn"})
        => ~log[i].changed /\ ~log[i].raised

\* the value of the dict at `addr` of the merge heap
Value(addr) == Deref(mheap, addr)

RECURSIVE SameKind(_)
\* no nested-type conflict: at every depth, the values a set of aligned
\* dicts hold under one key are all dicts or all non-dicts
SameKind(dicts) ==
    \A k \in UNION {Keys(d) : d \in dicts} :
        LET vals == {Get(d, k) : d \in {d \in dicts : HasKey(d, k)}}
        IN \/ \A v \in vals : v.t # "dict"
           \/ /\ \A v \in vals : v.t = "dict"
              /\ SameKind({v.v : v \in vals})

\* C4: with overwrite and recurse true, merge_dicts(merge_dicts(a, b), c)
\* equals merge_dicts(a, b, c) for all dicts a, b, c without nested-type
\* conflict.
C4_Associative ==
    (/\ mres.done /\ mres.overwrite /\ mres.recurse
     /\ Len(margs.args) = 2
     /\ SameKind({Deref(mheap0, margs.data), Deref(mheap0, margs.args[1]),
                  Deref(mheap0, margs.args[2])}))
    => LET ab == MergeDicts(mheap0, margs.data, <<margs.args[1]>>, TRUE, TRUE)
           abc == MergeDicts(ab.heap, ab.addr, <<margs.args[2]>>, TRUE, TRUE)
       IN Value(mres.addr) = Deref(abc.heap, abc.addr)

RECURSIVE FirstWith(_, _, _)
\* the value of key k in the first of the dicts at `addrs` that has it
FirstWith(h, addrs, k) ==
    IF HasKey(h[Head(addrs)], k) THEN Get(h[Head(addrs)], k)
    ELSE FirstWith(h, Tail(addrs), k)

\* C5: merge_dicts({}, L1, ..., Ln, overwrite=False) with non-dict values maps
\* each key to the value of the first layer that has it.
C5_FirstLayerWins ==
    (/\ mres.done /\ ~mres.overwrite
     /\ mheap0[margs.data] = {}
     /\ \A i \in DOMAIN margs.args : \A e \in mheap0[margs.args[i]] : e.v.t = "int")
    => /\ Keys(mheap[mres.addr]) = UNION {Keys(mheap0[margs.args[i]]) : i \in DOMAIN margs.args}
       /\ \A k \in Keys(mheap[mres.addr]) :
             Get(mheap[mres.addr], k) = FirstWith(mheap0, margs.args, k)

\* C6: merge_dicts returns a new dict and leaves every input as it was: the
\* base, every layer and every dict nested in them, for every combination of
\* overwrite and recurse.
C6_InputsUnchanged ==
    mres.done =>
        /\ mres.addr \notin DOMAIN mheap0
        /\ \A addr \in DOMAIN mheap0 : mheap[addr] = mheap0[addr]

\* C6's case: a call that merged a layer into a nested dict of the base, so
\* that the result differs from the base below the top level.
C6_Witness ==
    /\ mres.done /\ mres.recurse
    /\ Len(margs.args) >= 1
    /\ \E k \in Keys(mheap[mres.addr]) :
          /\ HasKey(mheap0[margs.data], k)
          /\ Get(mheap0[margs.data], k).t = "dict"
          /\ Get(mheap[mres.addr], k).t = "dict"
          /\ Get(mheap[mres.addr], k).v \notin DOMAIN mheap0
          /\ Deref(mheap, Get(mheap[mres.addr], k).v)
                # Deref(mheap0, Get(mheap0[margs.data], k).v)

\* the tokens of the outermost parse of the current call
OuterToks == (CHOOSE e \in {log[i] : i \in DOMAIN log} : e.ev = "parse" /\ e.depth = 0).toks
OuterParsed == \E i \in DOMAIN log : log[i].ev = "parse" /\ log[i].depth = 0

\* C7: for commands with distinct paths, also when one path is a prefix of
\* another, the handler CommandsMiddleware.run invokes is the one of the
\* command whose path is exactly the path selected on the command line, and
\* it is invoked when the middleware that reads the selection registers it.
C7_ExactDispatch ==
    /\ \A i \in DOMAIN invoked : invoked[i].command = invoked[i].toks
    /\ \A i \in DOMAIN log :
          (/\ log[i].ev = "run" /\ log[i].kind = "commands" /\ log[i].depth = 0
           /\ \A j \in 1..(i - 1) : ~(log[j].ev = "run" /\ log[j].kind = "commands")
           /\ \E c \in ById(log[i].mw).commands : c.command = OuterToks /\ c.handler)
          => \E k \in DOMAIN invoked :
                invoked[k].mw = log[i].mw /\ invoked[k].command = OuterToks

\* C7's case: "db" and "db migrate" are commands of one middleware, the
\* command line is "db migrate", and the handler of "db migrate" was invoked.
C7_Witness ==
    \E k \in DOMAIN invoked :
        /\ invoked[k].command = <<"db", "migrate">>
        /\ {<<"db">>, <<"db", "migrate">>} \subseteq PathsOf(ById(invoked[k].mw))

\* a call of run has reached the help fallback of CommandsMiddleware.run
InFallback == Len(stack) >= 2

\* C8: whenever CommandsMiddleware.run finds no command for the chosen path,
\* the process prints the top-level help and exits with status 0, whatever
\* argv, sys.argv and the other middleware are.
C8_FallbackPrintsHelpExitsZero ==
    (InFallback /\ outcome.status # "running")
    => outcome = [status |-> "exited", code |-> 0, help |-> <<"help">>]

\* C9: two CommandsMiddleware with disjoint command paths on one parser do not
\* conflict: a command line that selects a command of either invokes exactly
\* that handler once, reaches no help fallback and no exit, and run returns.
C9_TwoInstancesNoConflict ==
    (/\ Len(middlewares) = 2
     /\ CommandsIndexes = {1, 2}
     /\ PathsOf(middlewares[1]) \cap PathsOf(middlewares[2]) = {}
     /\ outcome.status # "idle"
     /\ OuterParsed
     /\ OuterToks \in PathsOf(middlewares[1]) \cup PathsOf(middlewares[2]))
    => /\ ~InFallback
       /\ outcome.status = "running"
       /\ \A k \in DOMAIN invoked : invoked[k].command = OuterToks
       /\ Len(invoked) <= 1

\* C10: once CommandsMiddleware.run has executed, the namespace holds no key
\* that begins with __cmd_: not when a handler is invoked, not afterwards in
\* the run phase, not when run returns; for no selected path, an
\* intermediate node and a leaf.
C10_NoSyntheticKeyLeft ==
    /\ \A k \in DOMAIN invoked : NoSynthetic(invoked[k].ns)
    /\ \A d \in DOMAIN stack :
          (/\ stack[d].pc = "run"
           /\ \E i \in CommandsIndexes : i < stack[d].index)
          => NoSynthetic(stack[d].ns)
    /\ \A i \in DOMAIN returned : NoSynthetic(returned[i])

\* C10's case: the command line "db" with "db migrate" registered too, so
\* that the parse left __cmd_ = "db" and __cmd_db = None; the handler of "db"
\* was invoked and run returned.
C10_Witness ==
    /\ outcome.status = "idle"
    /\ returned # <<>>
    /\ \E k \in DOMAIN invoked :
          /\ invoked[k].command = <<"db">>
          /\ <<"db", "migrate">> \in PathsOf(ById(invoked[k].mw))
          /\ Get(returned[1], <<"command">>) = Str(<<"db">>)

\* the non-empty prefixes of a set of paths
Prefixes(paths) == UNION {{SubSeq(q, 1, n) : n \in 1..Len(q)} : q \in paths}

\* C11: applying a command list to the same parser twice yields the same
\* sub-parser nodes as applying it once: the set of nodes is the set of
\* non-empty prefixes of the paths applied, however often each was applied,
\* and applying an applied command once more leaves the parser as it is
\* (every node and sub-parsers action is reused).
C11_ApplyIdempotent ==
    /\ parser.nodes = Prefixes(Applied)
    /\ \A path \in Applied :
          Apply(parser, [command |-> path, handler |-> TRUE]) = parser
    /\ \A i \in DOMAIN log :
          ApplyAll(parser, {[command |-> path, handler |-> TRUE] : path \in log[i].paths})
             = parser

\* C11's case: "db migrate" applied after "db", then the whole list applied
\* a second time.
C11_Witness ==
    /\ Len(log) = 3
    /\ log[1].paths = {<<"db">>}
    /\ log[2].paths = {<<"db", "migrate">>}
    /\ log[3] = [ev |-> "configure", paths |-> {<<"db">>, <<"db", "migrate">>}]
    /\ parser.nodes = {<<"db">>, <<"db", "migrate">>}

\* the variables of the environment EnvironmentConfigMiddleware matches
Prefixed == {cin.environ[i] : i \in {i \in DOMAIN cin.environ :
                                        StartsWith(cin.environ[i].name, cin.prefix)}}
\* the name of a variable after the prefix
Stripped(var) == SubSeq(var.name, Len(cin.prefix) + 1, Len(var.name))
\* no two matched variables differ by case only
NoCaseClash == \A v, w \in Prefixed : LowerAll(v.name) = LowerAll(w.name) => v = w
EnvRan == cout.done /\ cin.kind = "environment"

C13_PrefixStripped ==
    (EnvRan /\ NoCaseClash) =>
       \A v \in Prefixed :
          /\ HasKey(cout.ns, Spell(IF cin.lower THEN LowerAll(Stripped(v)) ELSE Stripped(v)))
          /\ ~HasKey(cout.ns, Spell(v.name))

InlineRan == cout.done /\ cin.kind = "inlineconfig"
\* the -e texts of the command line that hold an '=', in order
Occurrences == SelectSeq(ConfigEnv(cin.ns), LAMBDA t : \E i \in DOMAIN t : t[i] = "=")
\* the position of the first '=' of a text
FirstEq(t) == CHOOSE i \in DOMAIN t : t[i] = "=" /\ \A j \in 1..(i - 1) : t[j] # "="
KeyOf(t) == Spell(SubSeq(t, 1, FirstEq(t) - 1))
ValueOf(t) == SubSeq(t, FirstEq(t) + 1, Len(t))

RECURSIVE Filled(_, _, _)
\* whether dict `after` is dict `before` with nothing but the keys missing
\* from it filled in from `defaults`, at every depth
Filled(before, defaults, after) ==
    /\ Keys(after) = Keys(before) \cup Keys(defaults)
    /\ \A k \in Keys(after) :
          IF ~HasKey(before, k) THEN Get(after, k) = Get(defaults, k)
          ELSE IF Get(before, k).t = "dict" /\ HasKey(defaults, k)
                  /\ Get(defaults, k).t = "dict"
          THEN /\ Get(after, k).t = "dict"
               /\ Filled(Get(before, k).v, Get(defaults, k).v, Get(after, k).v)
          ELSE Get(after, k) = Get(before, k)

ConfigRan == cout.done /\ cin.kind = "config"
\* the value of -c, and the names the run is asked to load: those of -c, or
\* the default list without a -c
GivenFiles == Get(cin.ns, "config_file")
Requested ==
    IF ~Truthy(GivenFiles) THEN cin.defaults
    ELSE IF GivenFiles.t = "str" THEN <<GivenFiles.v>> ELSE GivenFiles.v
\* the pathnames under the search directories a relative name exists at
FoundAt(name) ==
    {PathJoin(cin.search_paths[i], name) : i \in DOMAIN cin.search_paths} \cap cin.fs
Resolvable(name) == IF IsAbs(name) THEN IsFile(cin.fs, name) ELSE FoundAt(name) # {}
\* the files the run read: those given to anyconfig.load that exist
LoadedFiles == SelectSeq(cout.loaded, LAMBDA f : IsFile(cin.fs, f))
\* the documents of the files loaded, each merged over the previous
LoadedDocument == AnyLoadAll(cin.fs, cout.loaded, TRUE, [raised |-> FALSE, data |-> {}]).data

\* C15: with allow_multi and two -c files whose documents are {a: {x: 1}} then
\* {a: {y: 2}} and a namespace without a, the namespace ends with
\* a = {x: 1, y: 2} when the middleware's merge option is on and with
\* a = {y: 2} when it is off.
C15_RecurseGovernsFiles ==
    (/\ ConfigRan /\ ~cout.raised /\ cin.allow_multi /\ cin.node = <<>>
     /\ Truthy(GivenFiles) /\ Len(Requested) = 2
     /\ Len(LoadedFiles) = 2
     /\ Document(LoadedFiles[1]) = {E("a", Lit({E("x", IntV(1))}))}
     /\ Document(LoadedFiles[2]) = {E("a", Lit({E("y", IntV(2))}))})
    => Get(cout.ns, "a") = IF cin.merge THEN Lit({E("x", IntV(1)), E("y", IntV(2))})
                           ELSE Lit({E("y", IntV(2))})

\* C16: with allow_multi the files of repeated -c flags are loaded in the
\* order given on the command line, each over the previous: a file named
\* earlier, as given or as found under a search directory, is never loaded
\* after a file named later.
C16_FilesInGivenOrder ==
    (ConfigRan /\ ~cout.raised /\ cin.allow_multi /\ Truthy(GivenFiles)) =>
       /\ \A p \in DOMAIN LoadedFiles : \E i \in DOMAIN Requested :
             LoadedFiles[p] \in {Requested[i]} \cup FoundAt(Requested[i])
       /\ \A p, q \in DOMAIN LoadedFiles :
             p < q => \E i, j \in DOMAIN Requested :
                        /\ i <= j
                        /\ LoadedFiles[p] \in {Requested[i]} \cup FoundAt(Requested[i])
                        /\ LoadedFiles[q] \in {Requested[j]} \cup FoundAt(Requested[j])

\* C17: for either setting of allow_multi and for the default list, a
\* relative filename that exists under a search directory is loaded from
\* that directory, and resolving raises nothing.
C17_RelativeResolved ==
    (ConfigRan /\ \A i \in DOMAIN Requested : Resolvable(Requested[i])) =>
       /\ ~cout.raised
       /\ \A i \in DOMAIN Requested :
             ~IsAbs(Requested[i]) =>
                \E j \in DOMAIN LoadedFiles : LoadedFiles[j] \in FoundAt(Requested[i])

RECURSIVE Follow(_, _)
\* document[s1][s2]...[sk], an empty mapping when a segment is missing
Follow(document, node) ==
    IF Len(node) = 0 THEN document
    ELSE IF HasKey(document, Head(node)) /\ Get(document, Head(node)).t = "dict"
    THEN Follow(Get(document, Head(node)).v, Tail(node))
    ELSE {}

\* C18: with node = [s1, ..., sk] what is merged into the namespace is the
\* subtree at document[s1]...[sk], an empty mapping when a segment is
\* missing; for k >= 2 it is not the value of a top-level key.
C18_NodeSubtree ==
    (ConfigRan /\ ~cout.raised /\ cin.node # <<>>) =>
       Del(cout.ns, "config_file") = Follow(LoadedDocument, cin.node)

ListRan == cout.done /\ cin.kind = "configlist"
\* the names given with -c of a ConfigListMiddleware, in order
Named ==
    LET given == Get(cin.ns, "config_files")
    IN IF ~Truthy(given) THEN <<>>
       ELSE IF given.t = "str" THEN <<given.v>> ELSE given.v

\* C19: after ConfigListMiddleware has run, for either setting of
\* allow_multi, config_data holds exactly one element per -c file, in the
\* order given: the defaults verbatim for "-", the defaults with the file's
\* values over them otherwise.
C19_OneElementPerFile ==
    (ListRan /\ \A i \in DOMAIN Named : Named[i] = Dash \/ IsFile(cin.fs, Named[i])) =>
       /\ ~cout.raised
       /\ HasKey(cout.ns, "config_data")
       /\ LET data == Get(cout.ns, "config_data").v
          IN /\ Len(data) = Len(Named)
             /\ \A i \in DOMAIN Named :
                   data[i] = IF Named[i] = Dash THEN cin.defaults
                             ELSE MergeInto(cin.defaults, <<Document(Named[i])>>,
                                            TRUE, cin.merge)

\* the defaults keys whose flag is registered on the parser and was not
\* given: the namespace holds None at the key
Unset == {k \in Keys(cin.defaults) : HasKey(cin.ns, k) /\ Get(cin.ns, k) = MNone}

\* C21: after InjectMiddleware.run every key of the defaults whose flag is
\* registered on the parser but was not given on the command line (the
\* parser left it at None) holds the value of the defaults.
C21_UnsetGetsDefault ==
    (cout.done /\ cin.kind = "inject") =>
        \A k \in Unset : Get(cout.ns, k) = Get(cin.defaults, k)

\* the dests of the flags the configuration middleware register
RawFlagKeys == {"config_env", "config_file", "config_files"}

\* C22: every configuration middleware that registers a flag removes the
\* flag's raw value from the namespace once its run has consumed it: after
\* the run of an InlineConfigMiddleware, a ConfigMiddleware or a
\* ConfigListMiddleware the namespace holds none of config_env, config_file
\* and config_files.
C22_RawFlagsRemoved ==
    (cout.done /\ ~cout.raised /\ cin.kind \in {"inlineconfig", "config", "configlist"}) =>
        Keys(cout.ns) \cap RawFlagKeys = {}

\* C29: ConfigMiddleware.run leaves the middleware's own defaults list
\* unchanged: without a -c flag the list the instance holds after the run is
\* the list passed to the constructor, so that a second run loads the same
\* files as the first.
C29_DefaultsUnchanged ==
    (ConfigRan /\ ~Truthy(GivenFiles)) => cout.defaults = cin.defaults

\* the base and the single layer of a merge_dicts(base, layer) call, and its
\* result
MergeBase == Deref(mheap0, margs.data)
MergeLayer == Deref(mheap0, margs.args[1])
OneLayerRecursive == mres.done /\ mres.recurse /\ Len(margs.args) = 1

RECURSIVE KeepsBase(_, _, _)
\* at every depth where base and layer hold mappings: a key of both that
\* holds no mapping in one of them has the base's value in the result
KeepsBase(base, layer, result) ==
    \A k \in Keys(base) \cap Keys(layer) :
        IF Get(base, k).t = "dict" /\ Get(layer, k).t = "dict"
        THEN /\ HasKey(result, k) /\ Get(result, k).t = "dict"
             /\ KeepsBase(Get(base, k).v, Get(layer, k).v, Get(result, k).v)
        ELSE HasKey(result, k) /\ Get(result, k) = Get(base, k)

\* C28: a recursive merge applies the caller's overwrite flag at every depth:
\* merge_dicts(base, layer, overwrite=o, recurse=True)[k] equals
\* merge_dicts(base[k], layer[k], overwrite=o, recurse=True) whenever base[k]
\* and layer[k] are mappings, and with overwrite=False a conflicting
\* non-mapping value keeps the base's value at every depth.
C28_FlagsPropagate ==
    OneLayerRecursive =>
       /\ \A k \in Keys(mheap0[margs.data]) \cap Keys(mheap0[margs.args[1]]) :
             LET b == Get(mheap0[margs.data], k)
                 l == Get(mheap0[margs.args[1]], k)
             IN (b.t = "dict" /\ l.t = "dict") =>
                   LET sub == MergeDicts(mheap0, b.v, <<l.v>>, mres.overwrite, TRUE)
                   IN /\ Get(mheap[mres.addr], k).t = "dict"
                      /\ Deref(mheap, Get(mheap[mres.addr], k).v) = Deref(sub.heap, sub.addr)
       /\ ~mres.overwrite => KeepsBase(MergeBase, MergeLayer, Value(mres.addr))

\* C28's case: base {a: {x: {x: 1}}} and layer {a: {x: {x: 2}}} conflict at
\* depth 3, and with overwrite=False the result holds the base's 1 there.
C28_Witness ==
    /\ OneLayerRecursive /\ ~mres.overwrite
    /\ MergeBase = {E("a", Lit({E("x", Lit({E("x", IntV(1))}))}))}
    /\ MergeLayer = {E("a", Lit({E("x", Lit({E("x", IntV(2))}))}))}
    /\ Value(mres.addr) = MergeBase

\* the middleware whose run was invoked in the call, in the order of the
\* calls, and the list of the parser
RunIds == LET runs == SelectSeq(log, LAMBDA e : e.ev = "run")
          IN [i \in DOMAIN runs |-> runs[i].mw]
ListIds == [i \in DOMAIN middlewares |-> middlewares[i].id]
RunReturned == Idle /\ returned # <<>> /\ Len(middlewares) > 0
\* the step in which ArgumentParser.run returns to the program
RunReturns == Running /\ Idle'

\* C27: a middleware appended by a run call during the run phase has its run
\* invoked in the same ArgumentParser.run call, after every middleware that
\* precedes it in the list and with the namespace as they left it; the run
\* of each middleware of the final list is invoked exactly once, and the
\* namespace returned is the one every middleware received.
C27_AppendedAreRun ==
    [][RunReturns => /\ RunIds' = ListIds'
                     /\ Len(returned') = 1
                     /\ Seen(returned'[1]) = ListIds']_vars

\* C27's case: the program registered one hook; its run appended a second,
\* whose run appended a third, and the call returned after the run of all
\* three.
C27_Witness ==
    /\ RunReturned
    /\ Len(middlewares) = 3
    /\ \E i \in DOMAIN log : log[i].ev = "run" /\ log[i].mw = 1 /\ log[i].n = 1
    /\ Seen(returned[1]) = <<1, 2, 3>>

\* the parse of the call is about to begin: the configure phase is over
AtParse == Running /\ Top.pc = "configure" /\ ~HasItem(middlewares, Top.index)

\* C30: at the start of every parse every Command registered on a
\* CommandsMiddleware has a sub-parser node on the parser, a Command added
\* with add_command after the middleware was configured on that parser
\* included.
C30_EveryCommandHasNode ==
    (AtParse /\ Cardinality(CommandsIndexes) = 1) =>
        \A i \in CommandsIndexes :
            \A c \in middlewares[i].commands : c.command \in parser.nodes

AddrParsed == cout.done /\ cin.kind = "addr"
\* the host and the port a host:port text writes
StrSplitColon(addr) == StrSplit(addr, <<":">>)
HostPart(text) == StrSplitColon(text)[1]
PortPart(text) == StrSplitColon(text)[2]

\* C26: parse_addr returns ('0.0.0.0', p) for an int p or a port-only str,
\* and (host, port) with the port as an int for a str host:port, '0.0.0.0'
\* in the place of an empty host; it raises for no such address.
C26_ParseAddr ==
    AddrParsed =>
       /\ ~cout.raised
       /\ IF cin.addr.t = "str" /\ Contains(cin.addr.v, <<":">>)
          THEN /\ cout.host = IF HostPart(cin.addr.v) = <<>> THEN AnyHost
                              ELSE HostPart(cin.addr.v)
               /\ cout.port = IntOfDigits(PortPart(cin.addr.v), 0)
          ELSE /\ cout.host = AnyHost
               /\ cout.port = IntOf(cin.addr).value

\* C23: the cache file is never a correctness dependency: for every sequence
\* of commands_map reads, changes of the installed console scripts, cache
\* deletions and instances that differ in separator or wait, the
\* commands_map obtained with cache=True is the one computed without a cache
\* from the entry points installed at that time.
C23_CacheIsTransparent ==
    (lastmap.done /\ lastmap.mw.cache /\ ~lastmap.raised
       /\ ~ComputeMap(lastmap.mw, lastmap.scripts).raised) =>
        /\ lastmap.result = ComputeMap(lastmap.mw, lastmap.scripts).result
        /\ lastmap.tree = ComputeMap(lastmap.mw, lastmap.scripts).tree

\* C24: when ConsoleScriptsMiddleware.run dispatches to a child process the
\* parent exits with the child's exit code on every path, the one where
\* waiting raises and the child is terminated included; when no known
\* command was selected it prints help and exits with 0.
C24_ExitsWithChildCode ==
    proc.pc = "exited" =>
        IF proc.sel = "known"
        THEN proc.child = "exited" /\ proc.exitcode = proc.childcode % 256
        ELSE proc.help /\ proc.exitcode = 0

\* C25: while the child runs, every signal other than SIGKILL and SIGSTOP
\* the parent receives after the spawn is relayed to the child with the same
\* number, wherever it arrives between the parent's steps.
C25_SignalsRelayed ==
    proc.pc \in {"install", "wait", "exited", "killed"} => proc.relayed = proc.received

=============================================================================
